---- MODULE Spec2Model ----
(***************************************************************************)
(* Local media archive and deduplication engine of download.py:            *)
(* ArchiveManager (store, find, add, save), the entry materializer         *)
(* (optimized_copy_from_archive) and the playlist prepass                  *)
(* (fast_copy_from_archive inside download_immediate).                     *)
(*                                                                         *)
(* Strings are sequences of tokens (a token stands for a run of characters *)
(* that contains neither "_" nor "." nor "/"); concatenation, endswith,    *)
(* lower() and Path.suffix work on these sequences.                        *)
(***************************************************************************)
EXTENDS Integers, Sequences, FiniteSets, TLC

VARIABLES
    data,      \* ArchiveManager.data: ordered dict, a sequence of [k, v]
    dirty,     \* ArchiveManager._dirty
    doc,       \* the persisted JSON document (download_archive.json)
    fs,        \* filesystem: resolved path -> inode number
    inode,     \* inode number -> [content, mtime]
    rdonly,    \* directories in which creating or writing a file fails
    last,      \* the last call made and what it returned
    pp,        \* the playlist prepass of download_immediate (locals + pc)
    io         \* the archive file and the process that owns the ArchiveManager

vars == <<data, dirty, doc, fs, inode, rdonly, last, pp, io>>

----------------------------------------------------------------------------
(* Bounds of the model *)

MaxEntries == 2      \* entries the store may hold
MaxListing == 3      \* items of a flat playlist listing
MaxTargets == 3      \* files the playlist directory may hold
MaxWrites == 2       \* completed writes of the document by one manager

----------------------------------------------------------------------------
(* Strings *)

None == <<"None">>                     \* Python None
Truthy(s) == s # None /\ s # <<>>      \* `if s:` for an optional string

LowerTok(t) ==
    CASE t = "A" -> "a"
      [] t = "B" -> "b"
      [] t = "YT" -> "yt"
      [] t = "YouTube" -> "youtube"
      [] t = "MP3" -> "mp3"
      [] t = "YOUTUBE.COM" -> "youtube.com"
      [] t = "PLAYLIST" -> "playlist"
      [] t = "LIST=" -> "list="
      [] t = "LM" -> "lm"
      [] t = "PL" -> "pl"
      [] t = "This" -> "this"
      [] t = "HTTP" -> "http"
      [] t = "Error" -> "error"
      [] t = "Y" -> "y"
      [] t = "YES" -> "yes"
      [] OTHER -> t

Lower(s) == [i \in DOMAIN s |-> LowerTok(s[i])]

EndsWith(s, suf) ==
    /\ Len(suf) <= Len(s)
    /\ SubSeq(s, Len(s) - Len(suf) + 1, Len(s)) = suf

RECURSIVE LStrip(_, _)
LStrip(s, t) == IF s # <<>> /\ Head(s) = t THEN LStrip(Tail(s), t) ELSE s

\* yt_dlp.utils.sanitize_filename(s, restricted=False): "" stays "", "/" becomes
\* its full-width look-alike, leading dots are stripped, an empty result is "_".
SaneTok(t) == IF t = "/" THEN "FWSLASH" ELSE t
sanitize_filename(s) ==
    IF s = <<>> THEN <<>>
    ELSE LET r == LStrip([i \in DOMAIN s |-> SaneTok(s[i])], ".")
         IN  IF r = <<>> THEN <<"_">> ELSE r

----------------------------------------------------------------------------
(* Paths and the filesystem *)

\* A path is [dir, name]; name is a token sequence such as <<"a", ".", "mp3">>.
\* Directory "L" is a symbolic link to directory "P"; "X" is on another volume.
Dirs == {"B", "P", "L", "X"}
ResolveDir(d) == IF d = "L" THEN "P" ELSE d
Resolve(p) == [dir |-> ResolveDir(p.dir), name |-> p.name]
Volume(d) == IF ResolveDir(d) = "X" THEN 2 ELSE 1

RECURSIVE RFind(_, _)
\* index of the last occurrence of token t in s, 0 when there is none
RFind(s, t) ==
    IF s = <<>> THEN 0
    ELSE IF s[Len(s)] = t THEN Len(s) ELSE RFind(SubSeq(s, 1, Len(s) - 1), t)

\* PurePath.suffix: the last dot and what follows, unless the dot leads or ends
Suffix(p) ==
    LET i == RFind(p.name, ".")
    IN  IF 1 < i /\ i < Len(p.name) THEN SubSeq(p.name, i, Len(p.name)) ELSE <<>>

\* PurePath.stem
Stem(p) ==
    LET i == RFind(p.name, ".")
    IN  IF 1 < i /\ i < Len(p.name) THEN SubSeq(p.name, 1, i - 1) ELSE p.name

Exists(f, p) == Resolve(p) \in DOMAIN f
MTime(f, ino, p) == ino[f[Resolve(p)]].mtime
Content(f, ino, p) == ino[f[Resolve(p)]].content

FreshIno(ino) == CHOOSE n \in 1..(Cardinality(DOMAIN ino) + 1) : n \notin DOMAIN ino

\* f with path q removed / bound to inode n
FsRemove(f, q) == [x \in DOMAIN f \ {q} |-> f[x]]
FsBind(f, q, n) == [x \in DOMAIN f \cup {q} |-> IF x = q THEN n ELSE f[x]]
\* inode table restricted to the inodes some path still names
Gc(f, ino) == [n \in {f[x] : x \in DOMAIN f} |-> ino[n]]

----------------------------------------------------------------------------
(* Ordered dict: a sequence of [k |-> key, v |-> value] with distinct keys *)

DKeys(d) == {d[i].k : i \in DOMAIN d}
DHas(d, k) == k \in DKeys(d)
DGet(d, k) == LET i == CHOOSE j \in DOMAIN d : d[j].k = k IN d[i].v
DDel(d, k) == SelectSeq(d, LAMBDA e : e.k # k)
RECURSIVE DDelAll(_, _)
DDelAll(d, ks) == IF ks = <<>> THEN d ELSE DDelAll(DDel(d, Head(ks)), Tail(ks))
\* d[k] = v: an existing key keeps its position, a new key goes last
DPut(d, k, v) ==
    IF DHas(d, k)
    THEN [i \in DOMAIN d |-> IF d[i].k = k THEN [k |-> k, v |-> v] ELSE d[i]]
    ELSE Append(d, [k |-> k, v |-> v])
DValues(d) == {d[i].v : i \in DOMAIN d}

----------------------------------------------------------------------------
(* ArchiveManager *)

Entry(vid, extractor, title, container, file_path, date) ==
    [id |-> vid, extractor |-> extractor, title |-> title, format |-> container,
     file_path |-> file_path, download_date |-> date]

NoEntry == Entry(None, None, None, None, [dir |-> "", name |-> None], 0)
Miss == [hit |-> FALSE, v |-> NoEntry]
Hit(v) == [hit |-> TRUE, v |-> v]

\* key without lower()
key_as_given(vid, extractor, container) ==
    (IF Truthy(extractor) THEN extractor ELSE <<"generic">>)
        \o <<"_">> \o vid \o <<"_">> \o container

\* ArchiveManager.key
key(vid, extractor, container) ==
    Lower(IF Truthy(extractor) THEN extractor ELSE <<"generic">>)
        \o <<"_">> \o vid \o <<"_">> \o container

\* the comparison form of a title: sanitize_filename(title).lower()
NormTitle(title) == Lower(sanitize_filename(title))

RECURSIVE TitleScan_hit_keeps(_, _, _, _, _, _)
\* the title-fallback loop returning a match without deleting keys_to_remove
TitleScan_hit_keeps(items, d, f, container, clean, rm) ==
    IF items = <<>>
    THEN [ret |-> Miss, data |-> DDelAll(d, rm), removed |-> rm]
    ELSE LET kk == Head(items).k
             v  == Head(items).v
         IN  IF ~EndsWith(kk, <<"_">> \o container)
             THEN TitleScan_hit_keeps(Tail(items), d, f, container, clean, rm)
             ELSE IF ~Exists(f, v.file_path)
             THEN TitleScan_hit_keeps(Tail(items), d, f, container, clean, Append(rm, kk))
             ELSE IF NormTitle(v.title) = clean
             THEN [ret |-> Hit(v), data |-> d, removed |-> <<>>]
             ELSE TitleScan_hit_keeps(Tail(items), d, f, container, clean, rm)

RECURSIVE TitleScan(_, _, _, _, _, _)
\* The title-fallback loop of ArchiveManager.find over list(self.data.items()):
\* items still to visit, d the dict, rm the keys_to_remove collected so far.
TitleScan(items, d, f, container, clean, rm) ==
    IF items = <<>>
    THEN [ret |-> Miss, data |-> DDelAll(d, rm), removed |-> rm]
    ELSE LET kk == Head(items).k
             v  == Head(items).v
         IN  IF ~EndsWith(kk, <<"_">> \o container)
             THEN TitleScan(Tail(items), d, f, container, clean, rm)
             ELSE IF ~Exists(f, v.file_path)
             THEN TitleScan(Tail(items), d, f, container, clean, Append(rm, kk))
             ELSE IF NormTitle(v.title) = clean
             THEN [ret |-> Hit(v), data |-> DDelAll(d, rm), removed |-> rm]
             ELSE TitleScan(Tail(items), d, f, container, clean, rm)

\* find with the exact-key step not checking that the file exists
find_unchecked(d, f, vid, extractor, container, title) ==
    LET k == key(vid, extractor, container)
    IN  IF DHas(d, k)
        THEN [ret |-> Hit(DGet(d, k)), data |-> d, removed |-> <<>>, via |-> "key"]
        ELSE IF Truthy(title)
        THEN LET s == TitleScan(d, d, f, container, NormTitle(title), <<>>)
             IN  [ret |-> s.ret, data |-> s.data, removed |-> s.removed,
                  via |-> IF s.ret.hit THEN "title" ELSE "none"]
        ELSE [ret |-> Miss, data |-> d, removed |-> <<>>, via |-> "none"]

\* find with the stale exact-key entry left in the store
find_keep_stale(d, f, vid, extractor, container, title) ==
    LET k     == key(vid, extractor, container)
        live  == DHas(d, k) /\ Exists(f, DGet(d, k).file_path)
    IN  IF live
        THEN [ret |-> Hit(DGet(d, k)), data |-> d, removed |-> <<>>, via |-> "key"]
        ELSE IF Truthy(title)
        THEN LET s == TitleScan(d, d, f, container, NormTitle(title), <<>>)
             IN  [ret |-> s.ret, data |-> s.data, removed |-> s.removed,
                  via |-> IF s.ret.hit THEN "title" ELSE "none"]
        ELSE [ret |-> Miss, data |-> d, removed |-> <<>>, via |-> "none"]

\* find whose title fallback compares the raw titles
find_raw_title(d, f, vid, extractor, container, title) ==
    LET k     == key(vid, extractor, container)
        exact == DHas(d, k)
        live  == exact /\ Exists(f, DGet(d, k).file_path)
        d1    == IF exact /\ ~live THEN DDel(d, k) ELSE d
        rm1   == IF exact /\ ~live THEN <<k>> ELSE <<>>
        m     == {i \in DOMAIN d1 : /\ EndsWith(d1[i].k, <<"_">> \o container)
                                    /\ Exists(f, d1[i].v.file_path)
                                    /\ d1[i].v.title = title}
    IN  IF live
        THEN [ret |-> Hit(DGet(d, k)), data |-> d, removed |-> <<>>, via |-> "key"]
        ELSE IF Truthy(title) /\ m # {}
        THEN [ret |-> Hit(d1[CHOOSE i \in m : \A j \in m : i <= j].v), data |-> d1,
              removed |-> rm1, via |-> "title"]
        ELSE [ret |-> Miss, data |-> d1, removed |-> rm1, via |-> "none"]

\* find whose title fallback scans the entries of every container
find_any_container(d, f, vid, extractor, container, title) ==
    LET k     == key(vid, extractor, container)
        exact == DHas(d, k)
        live  == exact /\ Exists(f, DGet(d, k).file_path)
        d1    == IF exact /\ ~live THEN DDel(d, k) ELSE d
        rm1   == IF exact /\ ~live THEN <<k>> ELSE <<>>
        m     == {i \in DOMAIN d1 : /\ Exists(f, d1[i].v.file_path)
                                    /\ NormTitle(d1[i].v.title) = NormTitle(title)}
    IN  IF live
        THEN [ret |-> Hit(DGet(d, k)), data |-> d, removed |-> <<>>, via |-> "key"]
        ELSE IF Truthy(title) /\ m # {}
        THEN [ret |-> Hit(d1[CHOOSE i \in m : \A j \in m : i <= j].v), data |-> d1,
              removed |-> rm1, via |-> "title"]
        ELSE [ret |-> Miss, data |-> d1, removed |-> rm1, via |-> "none"]

\* find deleting entries without `self._dirty = True`: nothing is reported removed
find_silent(d, f, vid, extractor, container, title) ==
    LET k     == key(vid, extractor, container)
        exact == DHas(d, k)
        live  == exact /\ Exists(f, DGet(d, k).file_path)
        d1    == IF exact /\ ~live THEN DDel(d, k) ELSE d
    IN  IF live
        THEN [ret |-> Hit(DGet(d, k)), data |-> d, removed |-> <<>>, via |-> "key"]
        ELSE IF Truthy(title)
        THEN LET s == TitleScan(d1, d1, f, container, NormTitle(title), <<>>)
             IN  [ret |-> s.ret, data |-> s.data, removed |-> <<>>,
                  via |-> IF s.ret.hit THEN "title" ELSE "none"]
        ELSE [ret |-> Miss, data |-> d1, removed |-> <<>>, via |-> "none"]

\* ArchiveManager.find: [ret, data (the dict afterwards), removed (keys evicted,
\* in order), via (the step that returned)]; _dirty is set iff removed # <<>>.
find(d, f, vid, extractor, container, title) ==
    LET k     == key(vid, extractor, container)
        exact == DHas(d, k)
        live  == exact /\ Exists(f, DGet(d, k).file_path)
        d1    == IF exact /\ ~live THEN DDel(d, k) ELSE d
        rm1   == IF exact /\ ~live THEN <<k>> ELSE <<>>
    IN  IF live
        THEN [ret |-> Hit(DGet(d, k)), data |-> d, removed |-> <<>>, via |-> "key"]
        ELSE IF Truthy(title)
        THEN LET s == TitleScan(d1, d1, f, container, NormTitle(title), <<>>)
             IN  [ret |-> s.ret, data |-> s.data, removed |-> rm1 \o s.removed,
                  via |-> IF s.ret.hit THEN "title" ELSE "none"]
        ELSE [ret |-> Miss, data |-> d1, removed |-> rm1, via |-> "none"]

\* ArchiveManager.add: the dict afterwards
add(d, f, ino, vid, extractor, title, file_path, container) ==
    DPut(d, key(vid, extractor, container),
         Entry(vid, extractor, title, container, file_path,
               IF Exists(f, file_path) THEN MTime(f, ino, file_path) ELSE 0))

----------------------------------------------------------------------------
(* Module-level archive functions working on the persisted document *)

\* find_in_archive on the loaded document a: [ret, doc (what is on disk afterwards:
\* save_archive is called only where the code calls it), removed (the keys no
\* longer on disk), via]
find_in_archive(a, f, video_id, extractor, container, title) ==
    LET k     == Lower(extractor) \o <<"_">> \o video_id \o <<"_">> \o container
        exact == DHas(a, k)
        live  == exact /\ Exists(f, DGet(a, k).file_path)
        a1    == IF exact /\ ~live THEN DDel(a, k) ELSE a
        rm1   == IF exact /\ ~live THEN <<k>> ELSE <<>>
    IN  IF live
        THEN [ret |-> Hit(DGet(a, k)), doc |-> a, removed |-> <<>>, via |-> "key"]
        ELSE IF Truthy(title)
        THEN LET s == TitleScan(a1, a1, f, container, NormTitle(title), <<>>)
             IN  IF s.ret.hit
                 THEN [ret |-> s.ret, doc |-> a1, removed |-> rm1, via |-> "title"]
                 ELSE [ret |-> Miss, doc |-> s.data, removed |-> rm1 \o s.removed,
                       via |-> "none"]
        ELSE [ret |-> Miss, doc |-> a1, removed |-> rm1, via |-> "none"]

\* add_to_archive: the document afterwards (file_path.absolute() is the path itself,
\* every directory of the model being absolute)
add_to_archive(a, f, ino, video_id, extractor, title, file_path, container) ==
    DPut(a, Lower(extractor) \o <<"_">> \o video_id \o <<"_">> \o container,
         Entry(video_id, extractor, title, container, file_path,
               IF Exists(f, file_path) THEN MTime(f, ino, file_path) ELSE 0))

----------------------------------------------------------------------------
(* Existing-files importer *)

Ext(t) == <<".", t>>
ImportExtensions(container) ==
    IF container = <<"mp3">> THEN {Ext("mp3")}
    ELSE IF container = <<"native">>
    THEN {Ext("m4a"), Ext("opus"), Ext("webm"), Ext("mp3"), Ext("aac")}
    ELSE {Ext("mp4"), Ext("mkv"), Ext("webm"), Ext("avi")}

\* _stable_key_for_path: the 8-byte blake2b digest of the path is one token, taken
\* to be collision-free on the paths of the model
stable_key_for_path(abs_path, fmt) ==
    <<"local", "_", ToString(abs_path), "_">> \o fmt

\* the files download_dir.glob("*") yields, as paths under download_dir
Glob(f, dir) ==
    {[dir |-> dir, name |-> q.name] : q \in {x \in DOMAIN f : x.dir = ResolveDir(dir)}}

\* all orders in which glob may yield the set S of paths
Orders(S) ==
    {o \in [1..Cardinality(S) -> S] : \A i, j \in DOMAIN o : i # j => o[i] # o[j]}

RECURSIVE ImportLoop_overwrite(_, _, _, _, _)
\* ImportLoop without the test `key not in archive_mgr.data`
ImportLoop_overwrite(files, d, f, ino, container) ==
    IF files = <<>> THEN d
    ELSE LET file_path == Head(files)
             k == stable_key_for_path(file_path, container)
             d1 == IF Lower(Suffix(file_path)) \in ImportExtensions(container)
                   THEN DPut(d, k, Entry(Stem(file_path), <<"local">>, Stem(file_path),
                                         container, file_path, MTime(f, ino, file_path)))
                   ELSE d
         IN  ImportLoop_overwrite(Tail(files), d1, f, ino, container)

RECURSIVE ImportLoop(_, _, _, _, _)
\* the loop of build_archive_from_existing_files(_optimized) over the globbed files
ImportLoop(files, d, f, ino, container) ==
    IF files = <<>> THEN d
    ELSE LET file_path == Head(files)
             k == stable_key_for_path(file_path, container)
             d1 == IF Lower(Suffix(file_path)) \in ImportExtensions(container)
                      /\ ~DHas(d, k)
                   THEN DPut(d, k, Entry(Stem(file_path), <<"local">>, Stem(file_path),
                                         container, file_path, MTime(f, ino, file_path)))
                   ELSE d
         IN  ImportLoop(Tail(files), d1, f, ino, container)

----------------------------------------------------------------------------
(* Entry materializer *)

\* the extension policy with a video container always forcing its own extension
target_ext_forced(source_path, container) ==
    IF container = <<"mp3">>
    THEN IF Lower(Suffix(source_path)) = Ext("mp3") THEN Ext("mp3") ELSE Suffix(source_path)
    ELSE IF container = <<"native">> THEN Suffix(source_path)
    ELSE <<".">> \o container

\* the extension policy of optimized_copy_from_archive
target_ext(source_path, container) ==
    IF container \in {<<"mp3">>, <<"native">>}
    THEN IF container = <<"mp3">>
         THEN IF Lower(Suffix(source_path)) = Ext("mp3")
              THEN Ext("mp3") ELSE Suffix(source_path)
         ELSE Suffix(source_path)
    ELSE IF Suffix(source_path) # <<>> THEN Suffix(source_path) ELSE <<".">> \o container

\* target_dir / f"{clean_title}{target_ext}"
target_path(archive_entry, target_dir, container) ==
    [dir |-> target_dir,
     name |-> sanitize_filename(archive_entry.title)
                  \o target_ext(archive_entry.file_path, container)]

\* os.link(src, dst) raises when dst exists, when the two are on different volumes
\* and when no entry can be created in dst's directory
LinkRaises(f, rd, src, dst) ==
    \/ Exists(f, dst)
    \/ Volume(src.dir) # Volume(dst.dir)
    \/ ResolveDir(dst.dir) \in rd

\* shutil.copy2(src, dst) raises SameFileError when dst is src (a hard link of it
\* included) and an OSError when dst has to be created in a read-only directory
CopyRaises(f, rd, src, dst) ==
    \/ Exists(f, dst) /\ f[Resolve(dst)] = f[Resolve(src)]
    \/ ~Exists(f, dst) /\ ResolveDir(dst.dir) \in rd

\* the materializer without its same-location test
copy_without_same_test(f, ino, rd, archive_entry, target_dir, container) ==
    LET source_path == archive_entry.file_path
        tp  == target_path(archive_entry, target_dir, container)
        src == Resolve(source_path)
        dst == Resolve(tp)
    IN  IF ~Exists(f, source_path)
        THEN [ok |-> FALSE, fs |-> f, inode |-> ino, how |-> "nosource"]
        ELSE IF ~LinkRaises(f, rd, source_path, tp)
        THEN [ok |-> TRUE, fs |-> FsBind(f, dst, f[src]), inode |-> ino, how |-> "link"]
        ELSE IF ~CopyRaises(f, rd, source_path, tp)
        THEN LET n == IF dst \in DOMAIN f THEN f[dst] ELSE FreshIno(ino)
             IN  [ok |-> TRUE, fs |-> FsBind(f, dst, n),
                  inode |-> [m \in DOMAIN ino \cup {n} |->
                                IF m = n THEN ino[f[src]] ELSE ino[m]],
                  how |-> "copy"]
        ELSE [ok |-> FALSE, fs |-> f, inode |-> ino, how |-> "error"]

\* optimized_copy_from_archive: [ok (the value returned), fs, inode, how]
optimized_copy_from_archive(f, ino, rd, archive_entry, target_dir, container) ==
    LET source_path == archive_entry.file_path
        tp  == target_path(archive_entry, target_dir, container)
        src == Resolve(source_path)
        dst == Resolve(tp)
    IN  IF ~Exists(f, source_path)
        THEN [ok |-> FALSE, fs |-> f, inode |-> ino, how |-> "nosource"]
        ELSE IF src = dst
        THEN [ok |-> TRUE, fs |-> f, inode |-> ino, how |-> "same"]
        ELSE IF ~LinkRaises(f, rd, source_path, tp)
        THEN [ok |-> TRUE, fs |-> FsBind(f, dst, f[src]), inode |-> ino, how |-> "link"]
        ELSE IF ~CopyRaises(f, rd, source_path, tp)
        THEN LET n == IF dst \in DOMAIN f THEN f[dst] ELSE FreshIno(ino)
             IN  [ok |-> TRUE, fs |-> FsBind(f, dst, n),
                  inode |-> [m \in DOMAIN ino \cup {n} |->
                                IF m = n THEN ino[f[src]] ELSE ino[m]],
                  how |-> "copy"]
        ELSE [ok |-> FALSE, fs |-> f, inode |-> ino, how |-> "error"]

----------------------------------------------------------------------------
(* Specification Spec: the archive store.  A run is either a session of one     *)
(* ArchiveManager constructed over an empty document, or a series of calls of   *)
(* the module-level functions on the document with no manager in use.           *)

Vids == {<<"x">>, <<"y">>}
AddVids == {<<"x">>}
AddExtractors == {<<"YT">>}
FindExtractors == {<<"yt">>}
AddTitles == {<<"A">>, <<>>}
FindTitles == {<<"a">>, <<"b">>, <<>>, None}
Containers == {<<"mp3">>, <<"mp4">>}
FileA == [dir |-> "B", name |-> <<"a", ".", "mp3">>]
FileB == [dir |-> "B", name |-> <<"b", ".", "mp4">>]
Files == {FileA, FileB}
NewFile == [content |-> "c1", mtime |-> 1]

NoCall ==
    [op |-> "none",
     \* a lookup: the title asked for, what came back, the keys evicted, the step
     title |-> None, ret |-> Miss, removed |-> <<>>, via |-> "none",
     \* a materialization: its arguments, its result and the strategy that ended it
     entry |-> NoEntry, dir |-> "", container |-> None, ok |-> FALSE, how |-> "none",
     \* the call repeats the call made just before it
     again |-> FALSE,
     \* a call of ArchiveManager.key: the string it returned
     key |-> <<>>,
     \* a call of process_info: the steps it took, the counters it increased, the
     \* value it returned, and what copy_from_archive returned
     steps |-> <<>>, counts |-> [copied |-> 0, skipped |-> 0, downloaded |-> 0],
     value |-> "", copy |-> "none",
     \* a clearing operation: the answers typed at its prompts, the date strings
     \* given to it, and the number it returned
     answers |-> <<>>, dates |-> <<>>, count |-> 0]
Call(op) == [NoCall EXCEPT !.op = op]
NoPrepass ==
    [pc |-> "idle", container |-> None, entries |-> <<>>, i |-> 0, missing_ids |-> <<>>,
     copied_count |-> 0, log |-> <<>>, real_urls |-> <<>>]

\* io.text: what download_archive.json holds: "json" (the complete document doc),
\* "partial" (a truncated text json.loads rejects) or "missing" (no file);
\* io.pc: "none" (no process owns an ArchiveManager), "run", "saving" (inside
\* write_text, the file opened and truncated); io.writes: completed writes of the
\* document by the current manager; io.mutated: the current manager inserted or
\* evicted an entry; io.saved: the store as it was at the last completed write
\* of a download session: io.mode (the function running), io.url (the URL in
\* hand is a "playlist" or a "video"), io.queue (the items
\* ydl.download has still to process), io.out_dir (where the output template puts a
\* downloaded file), io.target_dir (process_info's target_dir), io.retried (the
\* retry context is open), io.fetching / io.fetched (ids download_immediate has
\* downloaded successfully for a playlist URL in this session / in sessions that
\* returned); io.base: what the current manager last loaded or last wrote
\* successfully
NoIo ==
    [text |-> "json", writes |-> 0, pc |-> "run", mutated |-> FALSE, saved |-> <<>>,
     mode |-> "", url |-> "", queue |-> <<>>, out_dir |-> "", target_dir |-> "",
     retried |-> FALSE,
     fetching |-> {}, fetched |-> {}, base |-> <<>>,
     \* download_urls_with_prepass: the URLs not yet processed, force_firefox_cookies,
     \* total_ok, str(e) of the first attempt; of the URL at hand: the calls of
     \* download made and the additions to total_ok; whether a URL before failed
     urls |-> <<>>, force |-> FALSE, total_ok |-> 0, error |-> <<>>,
     attempts |-> 0, counted |-> 0, failed |-> FALSE,
     \* download_immediate: the Heartbeat objects made so far, one for each URL (the
     \* last one is hb), and how the download inside the try block ended
     hbs |-> <<>>, res |-> ""]

InSession == doc = <<>>
NoSession == data = <<>> /\ ~dirty

Init ==
    /\ data = <<>>
    /\ dirty = FALSE
    /\ doc = <<>>
    /\ fs = [p \in Files |-> IF p = FileA THEN 1 ELSE 2]
    /\ inode = [n \in {1, 2} |-> NewFile]
    /\ rdonly = {}
    /\ last = NoCall
    /\ pp = NoPrepass
    /\ io = NoIo

\* archive_mgr.add(vid, extractor, title, file_path, container), called as
\* _add_successful_download_to_archive calls it: for a file that exists
Add(vid, extractor, title, file_path, container) ==
    /\ InSession
    /\ Exists(fs, file_path)
    /\ data' = add(data, fs, inode, vid, extractor, title, file_path, container)
    /\ Len(data') <= MaxEntries
    /\ dirty' = TRUE
    /\ last' = Call("add")
    /\ UNCHANGED <<doc, fs, inode, rdonly, pp, io>>

\* archive_mgr.find(vid, extractor, container, title)
Find(vid, extractor, container, title) ==
    /\ InSession
    /\ LET r == find(data, fs, vid, extractor, container, title)
       IN  /\ data' = r.data
           /\ dirty' = (dirty \/ r.removed # <<>>)
           /\ last' = [NoCall EXCEPT !.op = "find", !.title = title, !.ret = r.ret,
                                      !.removed = r.removed, !.via = r.via]
    /\ UNCHANGED <<doc, fs, inode, rdonly, pp, io>>

\* build_archive_from_existing_files_optimized(download_dir, container, archive_mgr)
BuildArchive(download_dir, container) ==
    /\ InSession
    /\ \E files \in Orders(Glob(fs, download_dir)) :
           data' = ImportLoop(files, data, fs, inode, container)
    /\ Len(data') <= MaxEntries
    /\ dirty' = (dirty \/ data' # data)
    /\ last' = Call("import")
    /\ UNCHANGED <<doc, fs, inode, rdonly, pp, io>>

\* find_in_archive(video_id, extractor, container, title)
FindInArchive(video_id, extractor, container, title) ==
    /\ NoSession
    /\ LET r == find_in_archive(doc, fs, video_id, extractor, container, title)
       IN  /\ doc' = r.doc
           /\ last' = [NoCall EXCEPT !.op = "find_in_archive", !.title = title,
                                      !.ret = r.ret, !.removed = r.removed, !.via = r.via]
    /\ UNCHANGED <<data, dirty, fs, inode, rdonly, pp, io>>

\* add_to_archive(video_id, extractor, title, file_path, container)
AddToArchive(video_id, extractor, title, file_path, container) ==
    /\ NoSession
    /\ Exists(fs, file_path)
    /\ doc' = add_to_archive(doc, fs, inode, video_id, extractor, title, file_path,
                             container)
    /\ Len(doc') <= MaxEntries
    /\ last' = Call("add_to_archive")
    /\ UNCHANGED <<data, dirty, fs, inode, rdonly, pp, io>>

\* build_archive_from_existing_files(download_dir, container)
BuildArchiveLegacy(download_dir, container) ==
    /\ NoSession
    /\ \E files \in Orders(Glob(fs, download_dir)) :
           doc' = ImportLoop(files, doc, fs, inode, container)
    /\ Len(doc') <= MaxEntries
    /\ last' = Call("import_legacy")
    /\ UNCHANGED <<data, dirty, fs, inode, rdonly, pp, io>>

\* a file of the archive is deleted outside the program
DeleteFile(p) ==
    /\ Exists(fs, p)
    /\ fs' = FsRemove(fs, Resolve(p))
    /\ inode' = Gc(fs', inode)
    /\ last' = Call("delete")
    /\ UNCHANGED <<data, dirty, doc, rdonly, pp, io>>

\* a file appears (again) outside the program
CreateFile(p) ==
    /\ ~Exists(fs, p)
    /\ LET n == FreshIno(inode)
       IN  /\ fs' = FsBind(fs, Resolve(p), n)
           /\ inode' = [m \in DOMAIN inode \cup {n} |-> IF m = n THEN NewFile ELSE inode[m]]
    /\ last' = Call("create")
    /\ UNCHANGED <<data, dirty, doc, rdonly, pp, io>>

Next ==
    \/ \E v \in AddVids, e \in AddExtractors, t \in AddTitles, p \in Files, c \in Containers :
           Add(v, e, t, p, c)
    \/ \E v \in Vids, e \in FindExtractors, c \in Containers, t \in FindTitles :
           Find(v, e, c, t)
    \/ \E c \in Containers : BuildArchive("B", c)
    \/ \E v \in Vids, e \in FindExtractors, c \in Containers, t \in FindTitles :
           FindInArchive(v, e, c, t)
    \/ \E v \in AddVids, e \in AddExtractors, t \in AddTitles, p \in Files, c \in Containers :
           AddToArchive(v, e, t, p, c)
    \/ \E c \in Containers : BuildArchiveLegacy("B", c)
    \/ \E p \in Files : DeleteFile(p)
    \/ \E p \in Files : CreateFile(p)

Spec == Init /\ [][Next]_vars

----------------------------------------------------------------------------
(* Claims about the archive store *)

Finds == {"find", "find_in_archive"}
\* the store the last lookup worked on
StoreOf(op) == IF op = "find" THEN data ELSE doc

\* C1: an entry returned by find (ArchiveManager.find on the in-memory store,
\* find_in_archive on the document) has a backing file that exists when find
\* returns and is still an entry of the store; a stale entry is never returned.
C1_FoundEntryIsLive ==
    (last.op \in Finds /\ last.ret.hit) =>
        /\ Exists(fs, last.ret.v.file_path)
        /\ last.ret.v \in DValues(StoreOf(last.op))

\* a lookup that met a stale entry on its way and returned a live one by title
C1_Witness ==
    /\ last.op = "find"
    /\ last.ret.hit
    /\ last.via = "title"
    /\ last.removed # <<>>

TitleMatchExists(d, v, e, c, t) ==
    /\ ~DHas(d, key(v, e, c))
    /\ \E i \in DOMAIN d :
           /\ d[i].v.format = c
           /\ Exists(fs, d[i].v.file_path)
           /\ NormTitle(d[i].v.title) = NormTitle(t)

\* C5 as stated: for every query title (the empty string included), a live entry
\* of container c with a normalized-equal title makes find return an entry with
\* that normalized title.
C5_AnyTitleFallbackHits ==
    [][(last'.op = "find" /\ last'.title # None) =>
       \A v \in Vids, e \in FindExtractors, c \in Containers :
          (Find(v, e, c, last'.title) /\ TitleMatchExists(data, v, e, c, last'.title))
              => /\ last'.ret.hit
                 /\ NormTitle(last'.ret.v.title) = NormTitle(last'.title)]_vars

\* C5 amended: for a non-empty query title, a live entry of container c with a
\* normalized-equal title, under whatever identity or source it is stored, makes
\* find return an entry whose normalized title equals the normalized query title.
C5_TitleFallbackHits ==
    [][(last'.op = "find" /\ Truthy(last'.title)) =>
       \A v \in Vids, e \in FindExtractors, c \in Containers :
          (Find(v, e, c, last'.title) /\ TitleMatchExists(data, v, e, c, last'.title))
              => /\ last'.ret.hit
                 /\ NormTitle(last'.ret.v.title) = NormTitle(last'.title)]_vars

\* a find that hit by title an entry whose raw title differs from the query's
C5_Witness ==
    /\ last.op = "find"
    /\ last.via = "title"
    /\ last.ret.hit
    /\ last.ret.v.title # last.title
    /\ NormTitle(last.ret.v.title) = NormTitle(last.title)

\* C6: find(identity, source, c, title) never returns an entry whose format
\* differs from c, even when the title matches; with no entry of container c in
\* the store it returns absent.
C6_ContainerIsolation ==
    [][/\ last'.op = "find" =>
          \A v \in Vids, e \in FindExtractors, c \in Containers :
             Find(v, e, c, last'.title) =>
                /\ last'.ret.hit => last'.ret.v.format = c
                /\ (\A i \in DOMAIN data : data[i].v.format # c) => ~last'.ret.hit
       /\ last'.op = "find_in_archive" =>
          \A v \in Vids, e \in FindExtractors, c \in Containers :
             FindInArchive(v, e, c, last'.title) =>
                /\ last'.ret.hit => last'.ret.v.format = c
                /\ (\A i \in DOMAIN doc : doc[i].v.format # c) => ~last'.ret.hit]_vars

\* a find that returned absent although a live entry (of another container) has a
\* title that normalizes equal to the query title
C6_Witness ==
    /\ last.op = "find"
    /\ ~last.ret.hit
    /\ Truthy(last.title)
    /\ \E i \in DOMAIN data :
           /\ Exists(fs, data[i].v.file_path)
           /\ NormTitle(data[i].v.title) = NormTitle(last.title)

\* C22: every entry an import (build_archive_from_existing_files_optimized) inserts
\* is for a file no other entry of the store represents: no other entry has the
\* same file_path and the same format.
C22_ImportInsertsUnrepresentedOnly ==
    [][last'.op = "import" =>
          \A i \in DOMAIN data' :
              data'[i].k \notin DKeys(data) =>
                  \A j \in DOMAIN data' :
                      (j # i /\ data'[j].v.format = data'[i].v.format)
                          => data'[j].v.file_path # data'[i].v.file_path]_vars

\* C23: every entry of the store, created by add or by an importer, is held under
\* the composite key of its own fields: key(entry.id, entry.extractor, entry.format).
C23_EntryUnderOwnKey ==
    \A i \in DOMAIN data :
        data[i].k = key(data[i].v.id, data[i].v.extractor, data[i].v.format)

\* the indices of the entries find(vid, extractor, container, title) has to evict
\* from store d: the exact-key entry whose file is missing and, when the title scan
\* runs, the entries of the container whose file is missing and that come before
\* the first live entry of the container with the normalized title
FindEvicts(d, f, vid, extractor, container, title) ==
    LET k        == key(vid, extractor, container)
        stale(i) == ~Exists(f, d[i].v.file_path)
        ofc(i)   == EndsWith(d[i].k, <<"_">> \o container)
        m        == {i \in DOMAIN d : /\ ofc(i) /\ ~stale(i)
                                      /\ NormTitle(d[i].v.title) = NormTitle(title)}
        first    == IF m = {} THEN Len(d) + 1 ELSE CHOOSE i \in m : \A j \in m : i <= j
    IN  IF \E i \in DOMAIN d : d[i].k = k /\ ~stale(i)
        THEN {}
        ELSE {i \in DOMAIN d : d[i].k = k}
                 \cup (IF Truthy(title)
                       THEN {i \in DOMAIN d : ofc(i) /\ stale(i) /\ i < first}
                       ELSE {})

\* d without the entries at the indices in S, the others as they were and in order
Without(d, S) ==
    LET keep == {d[i].k : i \in DOMAIN d \ S} IN SelectSeq(d, LAMBDA x : x.k \in keep)

\* C25: a call of ArchiveManager.find leaves the store as it was but for the
\* entries it has to evict (each has a missing file and is the exact-key entry or
\* an entry of the requested container the title scan examined); it inserts and
\* alters nothing, and the dirty flag is set whenever an entry was evicted.
C25_FindEvictsExactlyStale ==
    [][last'.op = "find" =>
          \A v \in Vids, e \in FindExtractors, c \in Containers :
              Find(v, e, c, last'.title) =>
                  LET R == FindEvicts(data, fs, v, e, c, last'.title)
                  IN  /\ data' = Without(data, R)
                      /\ \A i \in R : /\ ~Exists(fs, data[i].v.file_path)
                                       /\ data[i].v.format = c
                      /\ R # {} => dirty'
                      /\ R = {} => dirty' = dirty]_vars

\* a find whose title scan matched a live entry after evicting a stale entry of
\* the container that came before it
C25_Witness ==
    /\ last.op = "find"
    /\ last.via = "title"
    /\ last.removed # <<>>
    /\ data # <<>>

----------------------------------------------------------------------------
(* Specification SpecEntries: one session of an ArchiveManager in which the     *)
(* files of the base directory are also rewritten outside the program, so that  *)
(* a file's modification time may differ from the one an entry has captured.    *)

\* a file is rewritten outside the program: same path, a later modification time
Touch(p) ==
    /\ Exists(fs, p)
    /\ MTime(fs, inode, p) = NewFile.mtime
    /\ inode' = [inode EXCEPT ![fs[Resolve(p)]].mtime = @ + 1]
    /\ last' = Call("touch")
    /\ UNCHANGED <<data, dirty, doc, fs, rdonly, pp, io>>

NextEntries ==
    \/ \E t \in AddTitles, p \in Files : Add(<<"x">>, <<"YT">>, t, p, <<"mp3">>)
    \/ \E t \in {<<"a">>, None} : Find(<<"x">>, <<"yt">>, <<"mp3">>, t)
    \/ \E c \in Containers : BuildArchive("B", c)
    \/ \E p \in Files : DeleteFile(p)
    \/ \E p \in Files : Touch(p)

SpecEntries == Init /\ [][NextEntries]_vars

\* C24 as stated: once the store maps a key to an entry, every later state of the
\* session has the key absent or mapped to the same entry.
C24_EntriesImmutable ==
    [][\A i \in DOMAIN data :
          DHas(data', data[i].k) => DGet(data', data[i].k) = data[i].v]_vars

\* C24: find and the importer never change an entry the store holds: after a
\* step the key is absent, or maps to the same entry, or the step was an add to
\* this very key, which overwrites the entry.
C24_OnlyAddOverwrites ==
    [][\A i \in DOMAIN data :
          DHas(data', data[i].k) =>
              LET v == DGet(data', data[i].k)
              IN  \/ v = data[i].v
                  \/ /\ last'.op = "add"
                     /\ data[i].k = key(v.id, v.extractor, v.format)]_vars

\* an import has run over a file rewritten since its entry was created, and the
\* entry still has the modification time captured then
C24_Witness ==
    /\ last.op = "import"
    /\ \E i \in DOMAIN data :
           /\ data[i].v.extractor = <<"local">>
           /\ Exists(fs, data[i].v.file_path)
           /\ data[i].v.download_date # MTime(fs, inode, data[i].v.file_path)

----------------------------------------------------------------------------
(* Specification SpecCopy: the materializer called on entries whose files live  *)
(* on the same volume, on another volume and in the target directory itself.    *)

SrcUpper  == [dir |-> "B", name |-> <<"s", ".", "MP3">>]
SrcBare   == [dir |-> "B", name |-> <<"s">>]
SrcOther  == [dir |-> "X", name |-> <<"s", ".", "webm">>]
SrcInDir  == [dir |-> "P", name |-> <<"a", ".", "mp3">>]
Sources == <<SrcUpper, SrcBare, SrcOther, SrcInDir>>
CopyTitles == {<<"a">>}
TargetDirs == {"P", "L"}
CopyContainers == {<<"mp3">>, <<"native">>, <<"mp4">>, <<"mkv">>}
CopyEntries ==
    {Entry(<<"x">>, <<"YT">>, t, <<"mp3">>, Sources[i], 1) :
        t \in CopyTitles, i \in DOMAIN Sources}

InDir(f, d) == {q \in DOMAIN f : q.dir = ResolveDir(d)}

InitCopy ==
    /\ data = <<>>
    /\ dirty = FALSE
    /\ doc = <<>>
    /\ fs = [q \in {Sources[i] : i \in DOMAIN Sources} |->
                CHOOSE i \in DOMAIN Sources : Sources[i] = q]
    /\ inode = [n \in DOMAIN Sources |-> [content |-> n, mtime |-> 1]]
    /\ rdonly = {}
    /\ last = NoCall
    /\ pp = NoPrepass
    /\ io = NoIo

\* optimized_copy_from_archive(archive_entry, target_dir, container)
Copy(archive_entry, target_dir, container) ==
    /\ LET r == optimized_copy_from_archive(fs, inode, rdonly, archive_entry,
                                            target_dir, container)
       IN  /\ fs' = r.fs
           /\ inode' = r.inode
           /\ last' = [NoCall EXCEPT !.op = "copy", !.entry = archive_entry,
                                      !.dir = target_dir, !.container = container,
                                      !.ok = r.ok, !.how = r.how]
    /\ Cardinality(InDir(fs', "P")) <= MaxTargets
    /\ UNCHANGED <<data, dirty, doc, rdonly, pp, io>>

\* the permissions of a directory are changed outside the program
Chmod(d) ==
    /\ rdonly' = IF d \in rdonly THEN rdonly \ {d} ELSE rdonly \cup {d}
    /\ last' = Call("chmod")
    /\ UNCHANGED <<data, dirty, doc, fs, inode, pp, io>>

NextCopy ==
    \/ \E e \in CopyEntries, d \in TargetDirs, c \in CopyContainers : Copy(e, d, c)
    \/ \E q \in InDir(fs, "P") : DeleteFile(q)
    \/ Chmod("P")

SpecCopy == InitCopy /\ [][NextCopy]_vars

----------------------------------------------------------------------------
(* Claims about the materializer *)

\* the files the last step created
Created == DOMAIN fs' \ DOMAIN fs
SameCallAgain ==
    /\ last.op = "copy"
    /\ last'.op = "copy"
    /\ last'.entry = last.entry
    /\ last'.dir = last.dir
    /\ last'.container = last.container

\* C7: materializing under the mp3 container yields the destination
\* <sanitized title>.mp3 whatever the source's extension is, and creates no file
\* of another name.
C7_Mp3DestinationIsMp3 ==
    [][(last'.op = "copy" /\ last'.container = <<"mp3">> /\ last'.ok) =>
          LET dest == [dir  |-> last'.dir,
                       name |-> sanitize_filename(last'.entry.title) \o Ext("mp3")]
          IN  /\ Exists(fs', dest)
              /\ Created \subseteq {Resolve(dest)}]_vars

\* C8: under the native container the destination is <sanitized title> followed by
\* the source's extension verbatim; under a video container it is followed by the
\* source's extension when that is non-empty and by "." and the container's name
\* otherwise; no file of another name is created.
C8_NativeAndVideoExtension ==
    [][(last'.op = "copy" /\ last'.container # <<"mp3">> /\ last'.ok) =>
          LET src  == last'.entry.file_path
              ext  == IF last'.container = <<"native">> THEN Suffix(src)
                      ELSE IF Suffix(src) # <<>> THEN Suffix(src)
                      ELSE <<".">> \o last'.container
              dest == [dir  |-> last'.dir,
                       name |-> sanitize_filename(last'.entry.title) \o ext]
          IN  /\ Exists(fs', dest)
              /\ Created \subseteq {Resolve(dest)}]_vars

\* a source without an extension materialized under mp4 as <title>.mp4
C8_Witness ==
    /\ last.op = "copy"
    /\ last.ok
    /\ last.container = <<"mp4">>
    /\ Suffix(last.entry.file_path) = <<>>
    /\ Exists(fs, [dir |-> last.dir, name |-> <<"a", ".", "mp4">>])

\* C9: a second call with the same entry, target directory and container right
\* after a successful first call returns true again and leaves the destination's
\* content equal to the source's.
C9_SecondCallSucceeds ==
    [][(SameCallAgain /\ last.ok) =>
          /\ last'.ok
          /\ Content(fs', inode', target_path(last'.entry, last'.dir, last'.container))
               = Content(fs', inode', last'.entry.file_path)]_vars

\* C10 as stated: whenever the resolved destination equals the source path the
\* call returns true and changes nothing.
C10_SameLocationAlwaysTrue ==
    [][(/\ last'.op = "copy"
        /\ Resolve(target_path(last'.entry, last'.dir, last'.container))
             = Resolve(last'.entry.file_path)) =>
          (last'.ok /\ fs' = fs /\ inode' = inode)]_vars

\* C10 amended: when the source file exists and the resolved destination equals
\* the source path, the call returns true and leaves the filesystem unchanged.
C10_SameLocationNoOp ==
    [][(/\ last'.op = "copy"
        /\ Exists(fs, last'.entry.file_path)
        /\ Resolve(target_path(last'.entry, last'.dir, last'.container))
             = Resolve(last'.entry.file_path)) =>
          (last'.ok /\ fs' = fs /\ inode' = inode)]_vars

\* a successful call whose destination, reached through the symbolic link, is the
\* source file itself
C10_Witness ==
    /\ last.op = "copy"
    /\ last.ok
    /\ last.dir = "L"
    /\ Exists(fs, last.entry.file_path)
    /\ Resolve(target_path(last.entry, last.dir, last.container))
         = Resolve(last.entry.file_path)

----------------------------------------------------------------------------
(* Specification SpecPrepass: the playlist prepass of download_immediate,       *)
(* fast_copy_from_archive(url, base_dir, container, archive_mgr), run one       *)
(* listing item per step over a store filled by earlier downloads.              *)

\* flat listing items: e.get("id"), e.get("title"), e.get("extractor_key")
ItemX == [id |-> <<"x">>, title |-> None, extractor_key |-> <<"YouTube">>]
ItemZ == [id |-> <<"z">>, title |-> <<"B">>, extractor_key |-> None]
ItemN == [id |-> None, title |-> <<"A">>, extractor_key |-> None]
Items == {ItemX, ItemZ, ItemN}
Listings == UNION {[1..n -> Items] : n \in 0..MaxListing}

\* files already downloaded: one on the playlist directory's volume, one elsewhere
DownA == [dir |-> "B", name |-> <<"A", ".", "mp3">>]
DownB == [dir |-> "X", name |-> <<"b", ".", "mp3">>]
Downloads ==
    {[id |-> <<"x">>, title |-> <<"A">>, file_path |-> DownA],
     [id |-> <<"y">>, title |-> <<"b">>, file_path |-> DownB]}
PrepassContainers == {<<"mp3">>}
playlist_dir == "P"

Or(s, default) == IF Truthy(s) THEN s ELSE default

InitPrepass ==
    /\ data = <<>>
    /\ dirty = FALSE
    /\ doc = <<>>
    /\ fs = [q \in {DownA, DownB} |-> IF q = DownA THEN 1 ELSE 2]
    /\ inode = [n \in {1, 2} |-> [content |-> n, mtime |-> 1]]
    /\ rdonly = {}
    /\ last = NoCall
    /\ pp = NoPrepass
    /\ io = NoIo

\* an earlier download recorded in the archive (process_info after a successful
\* download: _add_successful_download_to_archive)
Downloaded(dl, container) ==
    /\ pp.pc = "idle"
    /\ Exists(fs, dl.file_path)
    /\ data' = add(data, fs, inode, dl.id, <<"YouTube">>, dl.title, dl.file_path, container)
    /\ dirty' = TRUE
    /\ UNCHANGED <<doc, fs, inode, rdonly, last, pp, io>>

\* fast_copy_from_archive up to its loop: the flat listing came back as entries
PrepassStart(entries, container) ==
    /\ pp.pc = "idle"
    /\ pp' = IF entries = <<>>
             THEN [NoPrepass EXCEPT !.pc = "returned", !.container = container]
             ELSE [NoPrepass EXCEPT !.pc = "loop", !.container = container,
                                    !.entries = entries, !.i = 1]
    /\ UNCHANGED <<data, dirty, doc, fs, inode, rdonly, last, io>>

\* the loop body with missing_ids.insert(0, vid) in place of append
item_step_prepend(q, d, f, ino, rd) ==
    LET e     == q.entries[q.i]
        vid   == e.id
        r     == find(d, f, vid, Or(e.extractor_key, <<"YouTube">>), q.container,
                      Or(e.title, <<"unknown">>))
        c     == optimized_copy_from_archive(f, ino, rd, r.ret.v, playlist_dir,
                                             q.container)
    IN  IF ~Truthy(vid)
        THEN [pp |-> [q EXCEPT !.i = @ + 1, !.log = Append(@, "noid")],
              data |-> d, removed |-> <<>>, fs |-> f, inode |-> ino]
        ELSE IF r.ret.hit
        THEN [pp |-> [q EXCEPT !.i = @ + 1,
                               !.copied_count = IF c.ok THEN @ + 1 ELSE @,
                               !.log = Append(@, IF c.ok THEN "copied" ELSE "copyfailed")],
              data |-> r.data, removed |-> r.removed, fs |-> c.fs, inode |-> c.inode]
        ELSE [pp |-> [q EXCEPT !.i = @ + 1, !.missing_ids = <<vid>> \o @,
                               !.log = Append(@, "missing")],
              data |-> r.data, removed |-> r.removed, fs |-> f, inode |-> ino]

\* one iteration of `for e in entries`
item_step(q, d, f, ino, rd) ==
    LET e     == q.entries[q.i]
        vid   == e.id
        title == Or(e.title, <<"unknown">>)
        r     == find(d, f, vid, Or(e.extractor_key, <<"YouTube">>), q.container, title)
        c     == optimized_copy_from_archive(f, ino, rd, r.ret.v, playlist_dir,
                                             q.container)
    IN  IF ~Truthy(vid)
        THEN [pp |-> [q EXCEPT !.i = @ + 1, !.log = Append(@, "noid")],
              data |-> d, removed |-> <<>>, fs |-> f, inode |-> ino]
        ELSE IF r.ret.hit
        THEN [pp |-> [q EXCEPT !.i = @ + 1,
                               !.copied_count = IF c.ok THEN @ + 1 ELSE @,
                               !.log = Append(@, IF c.ok THEN "copied" ELSE "copyfailed")],
              data |-> r.data, removed |-> r.removed, fs |-> c.fs, inode |-> c.inode]
        ELSE [pp |-> [q EXCEPT !.i = @ + 1, !.missing_ids = Append(@, vid),
                               !.log = Append(@, "missing")],
              data |-> r.data, removed |-> r.removed, fs |-> f, inode |-> ino]

PrepassItem ==
    /\ pp.pc = "loop"
    /\ pp.i <= Len(pp.entries)
    /\ LET s == item_step(pp, data, fs, inode, rdonly)
       IN  /\ pp' = s.pp
           /\ data' = s.data
           /\ dirty' = (dirty \/ s.removed # <<>>)
           /\ fs' = s.fs
           /\ inode' = s.inode
    /\ UNCHANGED <<doc, rdonly, last, io>>

\* `return missing_ids`
PrepassReturn ==
    /\ pp.pc = "loop"
    /\ pp.i > Len(pp.entries)
    /\ pp' = [pp EXCEPT !.pc = "returned"]
    /\ UNCHANGED <<data, dirty, doc, fs, inode, rdonly, last, io>>

\* download_immediate after the prepass: nothing missing counts the URL as
\* satisfied and continues; otherwise the missing ids become the URLs to download
AfterPrepass ==
    /\ pp.pc = "returned"
    /\ pp' = IF pp.missing_ids = <<>>
             THEN [pp EXCEPT !.pc = "satisfied"]
             ELSE [pp EXCEPT !.pc = "fetch", !.real_urls = pp.missing_ids]
    /\ UNCHANGED <<data, dirty, doc, fs, inode, rdonly, last, io>>

\* the next URL (or the next session over the same archive)
NextUrl ==
    /\ pp.pc \in {"satisfied", "fetch"}
    /\ pp' = NoPrepass
    /\ UNCHANGED <<data, dirty, doc, fs, inode, rdonly, last, io>>

NextPrepass ==
    \/ \E dl \in Downloads, c \in PrepassContainers : Downloaded(dl, c)
    \/ \E es \in Listings, c \in PrepassContainers : PrepassStart(es, c)
    \/ PrepassItem
    \/ PrepassReturn
    \/ AfterPrepass
    \/ NextUrl
    \/ \E q \in {DownA, DownB} : DeleteFile(q)
    \/ Chmod(playlist_dir)

SpecPrepass == InitPrepass /\ [][NextPrepass]_vars

----------------------------------------------------------------------------
(* Claims about the playlist prepass, checked under SpecPrepass.                *)

RECURSIVE IdsWhere(_, _, _)
\* the ids of the items whose outcome is `what`, in listing order
IdsWhere(entries, log, what) ==
    IF entries = <<>> \/ log = <<>> THEN <<>>
    ELSE (IF Head(log) = what THEN <<Head(entries).id>> ELSE <<>>)
         \o IdsWhere(Tail(entries), Tail(log), what)

Outcomes(q) == {q.log[i] : i \in DOMAIN q.log}

\* the lookup the planner makes for the item it has reached
ItemAbsent ==
    LET e == pp.entries[pp.i]
    IN  ~find(data, fs, e.id, Or(e.extractor_key, <<"YouTube">>), pp.container,
              Or(e.title, <<"unknown">>)).ret.hit

\* C2: fast_copy_from_archive walks the listing in order; an item adds its id to
\* the end of missing_ids exactly when it has an id and find(id, source,
\* container, title) on the store as it then stands returns absent; an item
\* without an id and an item that was found add nothing; the list returned is the
\* list so built, i.e. the ids of the absent items in the listing's order.
C2_MissingIdsInListingOrder ==
    /\ [](pp.pc = "returned" =>
            /\ Len(pp.log) = Len(pp.entries)
            /\ pp.missing_ids = IdsWhere(pp.entries, pp.log, "missing")
            /\ \A i \in DOMAIN pp.log : (pp.log[i] = "noid") <=> ~Truthy(pp.entries[i].id))
    /\ [][/\ PrepassItem =>
             LET e == pp.entries[pp.i]
             IN  /\ pp'.i = pp.i + 1
                 /\ pp'.entries = pp.entries
                 /\ pp'.missing_ids = IF Truthy(e.id) /\ ItemAbsent
                                      THEN Append(pp.missing_ids, e.id)
                                      ELSE pp.missing_ids
                 /\ (pp'.log[pp.i] = "missing") <=> (Truthy(e.id) /\ ItemAbsent)
          /\ PrepassReturn => (pp'.missing_ids = pp.missing_ids /\ pp'.log = pp.log)]_vars

\* a returned plan over a listing with a found item, an item without id and an
\* absent item
C2_Witness ==
    /\ pp.pc = "returned"
    /\ {"copied", "noid", "missing"} \subseteq Outcomes(pp)
    /\ pp.missing_ids # <<>>

\* C3: once download_immediate has acted on the prepass result, every listing
\* item with an id was either materialized into the playlist folder (the copy
\* returned true) or has its id among the URLs handed to the downloader.
C3_CopyFailureIsFetched ==
    pp.pc \in {"satisfied", "fetch"} =>
        \A i \in DOMAIN pp.entries :
            Truthy(pp.entries[i].id) =>
                \/ pp.log[i] = "copied"
                \/ \E j \in DOMAIN pp.real_urls : pp.real_urls[j] = pp.entries[i].id

----------------------------------------------------------------------------
(* Persistence: the JSON document, ArchiveManager.__init__ and save, and the    *)
(* directory importer load_directory_to_archive.                                *)

archive_dir == "A"       \* the directory of download_archive.json

\* JSON values: a string, a number or null
JString(s) == [t |-> "string", s |-> s, n |-> 0]
JNumber(n) == [t |-> "number", s |-> <<>>, n |-> n]
JNull == [t |-> "null", s |-> <<>>, n |-> 0]
JOpt(s) == IF s = None THEN JNull ELSE JString(s)
PyOpt(j) == IF j.t = "null" THEN None ELSE j.s

\* str(file_path) and Path(s) for the absolute paths of the model
PathStr(q) == <<q.dir, "/">> \o q.name
PathOf(s) == [dir |-> s[1], name |-> SubSeq(s, 3, Len(s))]

\* json.dumps with the download_date of every entry written as 0
dumps_no_date(d) ==
    [i \in DOMAIN d |->
        [k |-> JString(d[i].k),
         v |-> [id |-> JOpt(d[i].v.id), extractor |-> JOpt(d[i].v.extractor),
                title |-> JOpt(d[i].v.title), format |-> JOpt(d[i].v.format),
                file_path |-> JString(PathStr(d[i].v.file_path)),
                download_date |-> JNumber(0)]]]

\* json.dumps(self.data, indent=2, ensure_ascii=False): the members in dict order
dumps(d) ==
    [i \in DOMAIN d |->
        [k |-> JString(d[i].k),
         v |-> [id |-> JOpt(d[i].v.id), extractor |-> JOpt(d[i].v.extractor),
                title |-> JOpt(d[i].v.title), format |-> JOpt(d[i].v.format),
                file_path |-> JString(PathStr(d[i].v.file_path)),
                download_date |-> JNumber(d[i].v.download_date)]]]

\* json.loads of a complete document
loads(text) ==
    [i \in DOMAIN text |->
        [k |-> text[i].k.s,
         v |-> Entry(PyOpt(text[i].v.id), PyOpt(text[i].v.extractor),
                     PyOpt(text[i].v.title), PyOpt(text[i].v.format),
                     PathOf(text[i].v.file_path.s), text[i].v.download_date.n)]]

\* ArchiveManager.__init__: the store read from the file, {} when read_text or
\* json.loads raises
load(text, document) == IF text = "json" THEN document ELSE <<>>

\* `if self._dirty:` with the test always passing
save_always(d) == TRUE
\* `if self._dirty:` of ArchiveManager.save
save_needed(d) == d

\* the except branch of save with the flag cleared all the same
save_failed_clears(d, dty) == [data |-> d, dirty |-> FALSE]
\* the except branch of save: only a warning is printed
save_failed(d, dty) == [data |-> d, dirty |-> dty]

AudioExtensions == {Ext("mp3"), Ext("m4a"), Ext("aac"), Ext("flac"), Ext("wav")}
VideoExtensions == {Ext("mp4"), Ext("mkv"), Ext("webm"), Ext("avi"), Ext("mov")}

\* the files dir_path.rglob('*') yields: the directory and the playlist folder below
\* the base directory
RGlob(f, dir) ==
    Glob(f, dir) \cup (IF dir = "B" THEN Glob(f, "P") ELSE {})

RECURSIVE load_dir_loop_unchecked(_, _, _, _, _)
\* the loop with already_exists always False
load_dir_loop_unchecked(files, d, f, ino, added) ==
    IF files = <<>> THEN [data |-> d, added |-> added]
    ELSE LET file_path == Head(files)
             suffix    == Lower(Suffix(file_path))
             container == IF suffix \in AudioExtensions THEN <<"mp3">> ELSE <<"mkv">>
             k         == stable_key_for_path(file_path, container)
         IN  IF suffix \in AudioExtensions \cup VideoExtensions
             THEN load_dir_loop_unchecked(Tail(files),
                      DPut(d, k, Entry(Stem(file_path), <<"local">>, Stem(file_path),
                                       container, file_path, MTime(f, ino, file_path))),
                      f, ino, added + 1)
             ELSE load_dir_loop_unchecked(Tail(files), d, f, ino, added)

RECURSIVE load_dir_loop(_, _, _, _, _)
\* the loop of load_directory_to_archive over the files rglob yields
load_dir_loop(files, d, f, ino, added) ==
    IF files = <<>> THEN [data |-> d, added |-> added]
    ELSE LET file_path == Head(files)
             suffix    == Lower(Suffix(file_path))
             container == IF suffix \in AudioExtensions THEN <<"mp3">> ELSE <<"mkv">>
             k         == stable_key_for_path(file_path, container)
             already_exists ==
                 \E i \in DOMAIN d : /\ d[i].v.file_path = file_path
                                     /\ d[i].v.format = container
         IN  IF suffix \in AudioExtensions \cup VideoExtensions /\ ~already_exists
             THEN load_dir_loop(Tail(files),
                      DPut(d, k, Entry(Stem(file_path), <<"local">>, Stem(file_path),
                                       container, file_path, MTime(f, ino, file_path))),
                      f, ino, added + 1)
             ELSE load_dir_loop(Tail(files), d, f, ino, added)

----------------------------------------------------------------------------
(* Specification SpecPersist: processes that construct an ArchiveManager over   *)
(* the archive file, change the store, save, end or are interrupted; the        *)
(* directory importer run as a process of its own.                              *)

PersistAdds ==
    {[id |-> <<"x">>, title |-> <<"A">>, file_path |-> FileA, container |-> <<"mp3">>],
     [id |-> <<"y">>, title |-> None, file_path |-> FileB, container |-> <<"mp4">>]}
PersistFinds ==
    {[id |-> <<"x">>, container |-> <<"mp3">>, title |-> None]}

InitPersist ==
    /\ data = <<>>
    /\ dirty = FALSE
    /\ doc = <<>>
    /\ fs = [p \in Files |-> IF p = FileA THEN 1 ELSE 2]
    /\ inode = [n \in {1, 2} |-> NewFile]
    /\ rdonly = {}
    /\ last = NoCall
    /\ pp = NoPrepass
    /\ io = [NoIo EXCEPT !.text = "missing", !.pc = "none"]

\* ArchiveManager()
New ==
    /\ io.pc = "none"
    /\ data' = load(io.text, doc)
    /\ dirty' = FALSE
    /\ io' = [io EXCEPT !.pc = "run", !.writes = 0, !.mutated = FALSE, !.base = data']
    /\ last' = Call("new")
    /\ UNCHANGED <<doc, fs, inode, rdonly, pp>>

\* archive_mgr.add for a file that was downloaded
PAdd(dl) ==
    /\ io.pc = "run"
    /\ Exists(fs, dl.file_path)
    /\ data' = add(data, fs, inode, dl.id, <<"YT">>, dl.title, dl.file_path, dl.container)
    /\ Len(data') <= MaxEntries
    /\ dirty' = TRUE
    /\ io' = [io EXCEPT !.mutated = TRUE]
    /\ last' = Call("add")
    /\ UNCHANGED <<doc, fs, inode, rdonly, pp>>

\* archive_mgr.find
PFind(q) ==
    /\ io.pc = "run"
    /\ LET r == find(data, fs, q.id, <<"yt">>, q.container, q.title)
       IN  /\ data' = r.data
           /\ dirty' = (dirty \/ r.removed # <<>>)
           /\ io' = [io EXCEPT !.mutated = @ \/ r.removed # <<>>]
           /\ last' = [NoCall EXCEPT !.op = "find", !.title = q.title, !.ret = r.ret,
                                      !.removed = r.removed, !.via = r.via]
    /\ UNCHANGED <<doc, fs, inode, rdonly, pp>>

\* build_archive_from_existing_files_optimized(download_dir, container, archive_mgr)
PImport(download_dir, container) ==
    /\ io.pc = "run"
    /\ \E files \in Orders(Glob(fs, download_dir)) :
           data' = ImportLoop(files, data, fs, inode, container)
    /\ Len(data') <= MaxEntries
    /\ dirty' = (dirty \/ data' # data)
    /\ io' = [io EXCEPT !.mutated = @ \/ data' # data]
    /\ last' = [NoCall EXCEPT !.op = "import", !.dir = download_dir,
                               !.container = container,
                               !.again = /\ last.op = "import"
                                         /\ last.dir = download_dir
                                         /\ last.container = container]
    /\ UNCHANGED <<doc, fs, inode, rdonly, pp>>

\* archive_mgr.save() up to the point where write_text has opened the file: a clean
\* store returns at once, a failing open is caught, else the file is truncated
SaveBegin ==
    /\ io.pc = "run"
    /\ io.writes < MaxWrites
    /\ IF ~save_needed(dirty)
       THEN /\ last' = [NoCall EXCEPT !.op = "save", !.how = "clean", !.ok = TRUE]
            /\ UNCHANGED <<data, dirty, doc, io>>
       ELSE IF archive_dir \in rdonly
       THEN /\ data' = save_failed(data, dirty).data
            /\ dirty' = save_failed(data, dirty).dirty
            /\ last' = [NoCall EXCEPT !.op = "save", !.how = "openfailed"]
            /\ UNCHANGED <<doc, io>>
       ELSE /\ io' = [io EXCEPT !.pc = "saving", !.text = "partial"]
            /\ doc' = <<>>
            /\ last' = Call("save_open")
            /\ UNCHANGED <<data, dirty>>
    /\ UNCHANGED <<fs, inode, rdonly, pp>>

\* write_text completes and save clears the flag
SaveWrite ==
    /\ io.pc = "saving"
    /\ doc' = loads(dumps(data))
    /\ dirty' = FALSE
    /\ io' = [io EXCEPT !.pc = "run", !.text = "json", !.writes = @ + 1, !.saved = data,
                        !.base = data]
    /\ last' = [NoCall EXCEPT !.op = "save", !.how = "written", !.ok = TRUE]
    /\ UNCHANGED <<data, fs, inode, rdonly, pp>>

\* the write raises (no space left, an unencodable character) and save catches it
SaveError ==
    /\ io.pc = "saving"
    /\ data' = save_failed(data, dirty).data
    /\ dirty' = save_failed(data, dirty).dirty
    /\ io' = [io EXCEPT !.pc = "run"]
    /\ last' = [NoCall EXCEPT !.op = "save", !.how = "writefailed"]
    /\ UNCHANGED <<doc, fs, inode, rdonly, pp>>

\* the process is interrupted or ends: its ArchiveManager is gone
Interrupt ==
    /\ io.pc \in {"run", "saving"}
    /\ data' = <<>>
    /\ dirty' = FALSE
    /\ io' = [io EXCEPT !.pc = "none", !.writes = 0, !.mutated = FALSE, !.base = <<>>]
    /\ last' = Call("interrupt")
    /\ UNCHANGED <<doc, fs, inode, rdonly, pp>>

\* load_directory_to_archive(directory_path): its own ArchiveManager, the scan and
\* the save, whose write succeeds or fails
LoadDirectory(directory_path) ==
    /\ io.pc = "none"
    /\ \E files \in Orders(RGlob(fs, directory_path)) :
         LET r == load_dir_loop(files, load(io.text, doc), fs, inode, 0)
             again == /\ last.op = "load_directory"
                      /\ last.dir = directory_path
             done(how) == [NoCall EXCEPT !.op = "load_directory", !.dir = directory_path,
                                         !.ok = TRUE, !.how = how, !.again = again]
         IN  /\ Len(r.data) <= MaxEntries
             /\ IF r.added = 0
                THEN /\ last' = done("nowrite")
                     /\ io' = [io EXCEPT !.writes = 0]
                     /\ doc' = doc
                ELSE IF archive_dir \in rdonly
                THEN /\ last' = done("openfailed")
                     /\ io' = [io EXCEPT !.writes = 0]
                     /\ doc' = doc
                ELSE \/ /\ last' = done("written")
                        /\ io' = [io EXCEPT !.text = "json", !.writes = 1,
                                            !.saved = r.data]
                        /\ doc' = loads(dumps(r.data))
                     \/ /\ last' = done("writefailed")
                        /\ io' = [io EXCEPT !.text = "partial", !.writes = 0]
                        /\ doc' = <<>>
    /\ UNCHANGED <<data, dirty, fs, inode, rdonly, pp>>

NextPersist ==
    \/ New
    \/ \E dl \in PersistAdds : PAdd(dl)
    \/ \E q \in PersistFinds : PFind(q)
    \/ \E c \in {<<"mp3">>, <<"mp4">>} : PImport("B", c)
    \/ SaveBegin
    \/ SaveWrite
    \/ SaveError
    \/ Interrupt
    \/ LoadDirectory("B")
    \/ Chmod(archive_dir)
    \/ DeleteFile(FileA)

SpecPersist == InitPersist /\ [][NextPersist]_vars

----------------------------------------------------------------------------
(* Claims about persistence, checked under SpecPersist.                         *)

C12_RoundTrip ==
    (last.op = "new" /\ io.text = "json") => data = io.saved

\* a fresh manager that loaded a saved document holding an added entry
C12_Witness ==
    /\ last.op = "new"
    /\ io.text = "json"
    /\ DHas(data, key(<<"x">>, <<"YT">>, <<"mp3">>))
    /\ DGet(data, key(<<"x">>, <<"YT">>, <<"mp3">>)).download_date = NewFile.mtime
    /\ Len(data) >= 2

\* C13: a write of the document by a manager's save happens only with the dirty
\* flag set and leaves it clear; save on a clean store touches neither the
\* document nor the store; a manager that neither added, evicted nor imported an
\* entry has made no write, however often save was called.
C13_SaveWritesOnlyWhenDirty ==
    /\ []((io.pc # "none" /\ ~io.mutated) => io.writes = 0)
    /\ [][/\ (io.pc # "none" /\ io'.writes > io.writes) => (dirty /\ ~dirty')
          /\ (SaveBegin /\ ~dirty) => UNCHANGED <<data, dirty, doc, io>>]_vars

\* save called on a store that was loaded non-empty and never changed
C13_Witness ==
    /\ last.op = "save"
    /\ last.how = "clean"
    /\ ~io.mutated
    /\ io.writes = 0
    /\ data # <<>>

C20_DocumentNeverPartial ==
    /\ io.text \in {"missing", "json"}
    /\ io.text = "json" => doc = io.saved

\* C27: while a manager lives, its store differs from what it last loaded or last
\* wrote successfully only with the dirty flag set; every step of the manager that
\* changes the store leaves the flag set, and the flag is cleared only by a write
\* that completed.
C27_DirtyWheneverChanged ==
    /\ [](io.pc \in {"run", "saving"} => (data # io.base => dirty))
    /\ [][(io.pc \in {"run", "saving"} /\ io'.pc \in {"run", "saving"}) =>
              /\ data' # data => dirty'
              /\ (dirty /\ ~dirty') =>
                     /\ io'.writes = io.writes + 1
                     /\ io'.text = "json"
                     /\ doc' = loads(dumps(data))]_vars

\* a manager whose find evicted the entry it had written, and whose next save
\* failed in the write: the store differs from what was written and the flag is set
C27_Witness ==
    /\ io.pc = "run"
    /\ last.op = "save"
    /\ last.how = "writefailed"
    /\ dirty
    /\ data = <<>>
    /\ io.base # <<>>

----------------------------------------------------------------------------
(* Further claims about the playlist prepass, checked under SpecPrepass.        *)

\* C16: the list the prepass returns, and the list of URLs download_immediate
\* builds from it, hold no id twice.
C16_NoIdentityFetchedTwice ==
    pp.pc \in {"returned", "fetch"} =>
        /\ \A i, j \in DOMAIN pp.missing_ids :
               i # j => pp.missing_ids[i] # pp.missing_ids[j]
        /\ \A i, j \in DOMAIN pp.real_urls :
               i # j => pp.real_urls[i] # pp.real_urls[j]

\* C17: a playlist URL whose flat listing failed or came back empty (flat_entries
\* returns [] in both cases) is not counted as satisfied from the archive: it goes
\* on to the download.
C17_EmptyListingStillFetched ==
    (pp.pc \in {"satisfied", "fetch"} /\ pp.entries = <<>>) => pp.pc = "fetch"

----------------------------------------------------------------------------
(* Download sessions: SmartYoutubeDL.process_info and the two session           *)
(* functions download_immediate and download_urls_with_prepass.                 *)

CheckExtensions(container) ==
    IF container = <<"mp3">> THEN {Ext("mp3")}
    ELSE IF container = <<"native">>
    THEN {Ext("m4a"), Ext("opus"), Ext("webm"), Ext("mp3"), Ext("aac")}
    ELSE {Ext("mp4"), Ext("m4v"), Ext("mkv"), Ext("webm"), Ext("avi")}

\* check_existing_file(base_dir, info, container)
check_existing_file(f, dir, info, container) ==
    \E ext \in CheckExtensions(container) :
        Exists(f, [dir |-> dir, name |-> sanitize_filename(info.title) \o ext])

possible_exts == <<Ext("m4a"), Ext("opus"), Ext("webm"), Ext("mp3"), Ext("aac")>>

\* the file _add_successful_download_to_archive expects: [found, path]
expected_file(f, dir, container, title) ==
    LET clean == sanitize_filename(title)
        at(ext) == [dir |-> dir, name |-> clean \o ext]
        hits == {i \in DOMAIN possible_exts : Exists(f, at(possible_exts[i]))}
    IN  IF container = <<"mp3">> THEN [found |-> TRUE, path |-> at(Ext("mp3"))]
        ELSE IF container = <<"native">>
        THEN IF hits = {} THEN [found |-> FALSE, path |-> at(<<>>)]
             ELSE [found |-> TRUE,
                   path |-> at(possible_exts[CHOOSE i \in hits : \A j \in hits : i <= j])]
        ELSE [found |-> TRUE, path |-> at(<<".">> \o container)]

\* SmartYoutubeDL._add_successful_download_to_archive: the store afterwards
add_successful_download(d, f, ino, dir, container, info) ==
    LET e == expected_file(f, dir, container, info.title)
    IN  IF Truthy(info.id) /\ Truthy(info.extractor_key) /\ e.found /\ Exists(f, e.path)
        THEN add(d, f, ino, info.id, info.extractor_key, info.title, e.path, container)
        ELSE d

\* the file the downloader writes for info under the output template's directory
downloaded_file(out_dir, container, info) ==
    [dir  |-> out_dir,
     name |-> sanitize_filename(info.title)
              \o (IF container = <<"native">> THEN Ext("m4a") ELSE <<".">> \o container)]

\* the downloader's own process_info writes the file out unless it is there:
\* [fs, inode] afterwards
write_download(f, ino, out, n) ==
    IF out \in DOMAIN f THEN [fs |-> f, inode |-> ino]
    ELSE [fs    |-> FsBind(f, out, n),
          inode |-> [m \in DOMAIN ino \cup {n} |-> IF m = n THEN NewFile ELSE ino[m]]]

\* the counters of SmartYoutubeDL one call of process_info adds to
Counts(copied, skipped, downloaded) ==
    [copied |-> copied, skipped |-> skipped, downloaded |-> downloaded]

\* process_info from "Process normally (download)": w is the file system after the
\* download, reported its return value, steps what process_info did before
process_download(d, rm, w, dir, container, info, reported, steps) ==
    IF reported
    THEN [data |-> add_successful_download(d, w.fs, w.inode, dir, container, info),
          removed |-> rm, fs |-> w.fs, inode |-> w.inode, how |-> "downloaded",
          steps |-> Append(steps, "download"), counts |-> Counts(0, 0, 1),
          value |-> "result", copy |-> "none"]
    ELSE [data |-> d, removed |-> rm, fs |-> w.fs, inode |-> w.inode,
          how |-> "unreported",
          steps |-> Append(steps, "download"), counts |-> Counts(0, 0, 0),
          value |-> "result", copy |-> "none"]

\* process_info from "Check if file already exists in current directory"
process_existing(d, rm, f, ino, dir, target_dir, container, info, out_dir, reported, steps) ==
    IF check_existing_file(f, target_dir, info, container)
    THEN [data |-> d, removed |-> rm, fs |-> f, inode |-> ino, how |-> "skipped",
          steps |-> Append(steps, "check"), counts |-> Counts(0, 1, 0),
          value |-> "None", copy |-> "none"]
    ELSE process_download(d, rm,
             write_download(f, ino, Resolve(downloaded_file(out_dir, container, info)),
                            FreshIno(ino)),
             dir, container, info, reported, Append(steps, "check"))

\* process_info counting the item as copied before looking at what the copy returned
process_copied_counted(r, c, dir, target_dir, container, info, out_dir, reported) ==
    IF c.ok
    THEN [data |-> r.data, removed |-> r.removed, fs |-> c.fs, inode |-> c.inode,
          how |-> "copied", steps |-> <<"find", "copy">>, counts |-> Counts(1, 0, 0),
          value |-> "None", copy |-> "ok"]
    ELSE [process_existing(r.data, r.removed, c.fs, c.inode, dir, target_dir, container,
                           info, out_dir, reported, <<"find", "copy">>)
             EXCEPT !.counts.copied = 1, !.copy = "failed"]

\* process_info after copy_from_archive returned c for the entry found by r
process_copied(r, c, dir, target_dir, container, info, out_dir, reported) ==
    IF c.ok
    THEN [data |-> r.data, removed |-> r.removed, fs |-> c.fs, inode |-> c.inode,
          how |-> "copied", steps |-> <<"find", "copy">>, counts |-> Counts(1, 0, 0),
          value |-> "None", copy |-> "ok"]
    ELSE [process_existing(r.data, r.removed, c.fs, c.inode, dir, target_dir, container,
                           info, out_dir, reported, <<"find", "copy">>)
             EXCEPT !.copy = "failed"]

\* process_info after archive.find returned r
process_found(r, f, ino, rd, dir, target_dir, container, info, out_dir, reported) ==
    IF r.ret.hit
    THEN process_copied(r, optimized_copy_from_archive(f, ino, rd, r.ret.v, target_dir,
                                                       container),
                        dir, target_dir, container, info, out_dir, reported)
    ELSE process_existing(r.data, r.removed, f, ino, dir, target_dir, container, info,
                          out_dir, reported, <<"find">>)

\* SmartYoutubeDL.process_info for a single item; reported says whether the
\* downloader's process_info returned a true value after writing the file.  The
\* result tells the steps taken ("find", "copy", "check", "download"), the counters
\* increased, the value returned and what copy_from_archive returned ("ok",
\* "failed", or "none" when it was not called)
process_info(d, f, ino, rd, dir, target_dir, container, info, out_dir, reported) ==
    IF Truthy(info.id) /\ Truthy(info.extractor_key)
    THEN process_found(find(d, f, info.id, info.extractor_key, container, info.title),
                       f, ino, rd, dir, target_dir, container, info, out_dir, reported)
    ELSE process_download(d, <<>>,
             write_download(f, ino, Resolve(downloaded_file(out_dir, container, info)),
                            FreshIno(ino)),
             dir, container, info, reported, <<>>)

\* ArchiveManager.save() with nothing done
save_skipped(st, outcome) ==
    [dirty |-> st.dirty, doc |-> st.doc, text |-> st.text, how |-> "clean"]

\* ArchiveManager.save() as one call on st = [data, dirty, doc, text]; outcome is
\* what the write does: "ok", "openfail" or "writefail"
save(st, outcome) ==
    IF ~save_needed(st.dirty)
    THEN [dirty |-> st.dirty, doc |-> st.doc, text |-> st.text, how |-> "clean"]
    ELSE IF outcome = "ok"
    THEN [dirty |-> FALSE, doc |-> loads(dumps(st.data)), text |-> "json",
          how |-> "written"]
    ELSE IF outcome = "openfail"
    THEN [dirty |-> save_failed(st.data, st.dirty).dirty, doc |-> st.doc,
          text |-> st.text, how |-> "openfailed"]
    ELSE [dirty |-> save_failed(st.data, st.dirty).dirty, doc |-> <<>>,
          text |-> "partial", how |-> "writefailed"]

\* what a write can do given the permissions of the archive directory
WriteOutcomes(rd) == IF archive_dir \in rd THEN {"openfail"} ELSE {"ok", "writefail"}

----------------------------------------------------------------------------
(* Specification SpecSession: runs of download_immediate and of                 *)
(* download_urls_with_prepass, one after another over the same archive file     *)
(* and base directory, container mp3.                                           *)

base_dir == "B"
uploader_dir == "U"     \* base_dir / <uploader>: where the template of
                        \* outtmpl_for_unknown_playlist puts an item fetched by its own
                        \* URL (a playlist's items go to base_dir / <playlist title>)
session_container == <<"mp3">>

InfoX == [id |-> <<"x">>, title |-> <<"A">>, extractor_key |-> <<"YouTube">>]
InfoZ == [id |-> <<"z">>, title |-> <<"B">>, extractor_key |-> <<"YouTube">>]
\* the playlist, before and after an item was added to it
SessionListings == {<<InfoX>>, <<InfoX, InfoZ>>}
\* the info_dict the downloader builds for a video id
InfoOf(vid) == IF vid = <<"x">> THEN InfoX ELSE InfoZ

InitSession ==
    /\ data = <<>>
    /\ dirty = FALSE
    /\ doc = <<>>
    /\ fs = <<>>
    /\ inode = <<>>
    /\ rdonly = {}
    /\ last = NoCall
    /\ pp = NoPrepass
    /\ io = [NoIo EXCEPT !.text = "missing", !.pc = "none"]

\* download_immediate / download_urls_with_prepass up to the loop over the URLs:
\* ArchiveManager() and build_archive_from_existing_files_optimized
SessionStart(mode) ==
    /\ io.pc = "none"
    /\ \E files \in Orders(Glob(fs, base_dir)) :
           data' = ImportLoop(files, load(io.text, doc), fs, inode, session_container)
    /\ Len(data') <= MaxEntries
    /\ dirty' = (data' # load(io.text, doc))
    /\ io' = [io EXCEPT !.pc = "urls", !.mode = mode, !.writes = 0, !.mutated = dirty']
    /\ last' = Call("session")
    /\ UNCHANGED <<doc, fs, inode, rdonly, pp>>

\* `with SmartYoutubeDL(...) as ydl:` entered for a URL whose items are queue
EnterContext(url, queue, out_dir, target_dir) ==
    /\ io.pc = "urls"
    /\ io' = [io EXCEPT !.pc = "with", !.url = url, !.queue = queue,
                        !.out_dir = out_dir, !.target_dir = target_dir,
                        !.retried = FALSE]
    /\ pp' = NoPrepass
    /\ last' = Call("enter")
    /\ UNCHANGED <<data, dirty, doc, fs, inode, rdonly>>

\* the state after process_info(info) gave r
ProcessInfoDone(info, reported, r) ==
    /\ data' = r.data
    /\ Len(data') <= MaxEntries
    /\ dirty' = (dirty \/ r.removed # <<>> \/ r.data # DDelAll(data, r.removed))
    /\ fs' = r.fs
    /\ inode' = r.inode
    /\ io' = [io EXCEPT !.queue = Tail(@), !.mutated = @ \/ dirty',
                        !.fetching = IF /\ r.how = "downloaded"
                                        /\ io.mode = "immediate"
                                        /\ io.url = "playlist"
                                     THEN @ \cup {info.id} ELSE @]
    /\ last' = [NoCall EXCEPT !.op = "process_info", !.how = r.how,
                               !.steps = r.steps, !.counts = r.counts,
                               !.value = r.value,
                               !.copy = r.copy,
                               !.ok = reported, !.dir = io.out_dir,
                               !.title = info.title,
                               !.entry = Entry(info.id, info.extractor_key,
                                               info.title, session_container,
                                               downloaded_file(io.out_dir,
                                                   session_container, info), 0)]
    /\ UNCHANGED <<doc, rdonly, pp>>

\* ydl.download reaches the next item: process_info(info_dict); refused says that
\* the copy, if one is tried, cannot create its file (no space left, no permission)
ProcessInfo(reported, refused) ==
    /\ io.pc = "with"
    /\ io.queue # <<>>
    /\ ProcessInfoDone(Head(io.queue), reported,
                       process_info(data, fs, inode,
                                    IF refused THEN rdonly \cup {ResolveDir(io.target_dir)}
                                    ELSE rdonly,
                                    base_dir, io.target_dir, session_container,
                                    Head(io.queue), io.out_dir, reported))

\* ydl.download raises: download_urls_with_prepass may open a second context with
\* cookies inside the handler; otherwise the handler continues with the next URL
DownloadError(retry) ==
    /\ io.pc = "with"
    /\ retry => (io.mode = "with_prepass" /\ ~io.retried)
    /\ io' = IF retry THEN [io EXCEPT !.retried = TRUE]
             ELSE [io EXCEPT !.pc = "exit", !.queue = <<>>]
    /\ last' = Call("error")
    /\ UNCHANGED <<data, dirty, doc, fs, inode, rdonly, pp>>

\* SmartYoutubeDL.__exit__: self.archive.save(); the retry context closes before
\* the context around it
ExitContext(outcome) ==
    /\ \/ io.pc = "with" /\ io.queue = <<>>
       \/ io.pc = "exit"
    /\ LET r == save([data |-> data, dirty |-> dirty, doc |-> doc, text |-> io.text],
                     outcome)
       IN  /\ dirty' = r.dirty
           /\ doc' = r.doc
           /\ io' = [io EXCEPT !.text = r.text,
                               !.saved = IF r.how = "written" THEN data ELSE @,
                               !.retried = FALSE,
                               !.pc = IF io.retried THEN "exit" ELSE "urls"]
           /\ last' = [NoCall EXCEPT !.op = "save", !.how = r.how]
    /\ UNCHANGED <<data, fs, inode, rdonly, pp>>

\* KeyboardInterrupt inside the context: every open context saves in __exit__ and
\* the interrupt leaves the session function
KeyboardInterrupt(o1, o2) ==
    /\ io.pc = "with"
    /\ LET st == [data |-> data, dirty |-> dirty, doc |-> doc, text |-> io.text]
           r1 == save(st, o1)
           r2 == IF io.retried
                 THEN save([data |-> data, dirty |-> r1.dirty, doc |-> r1.doc,
                            text |-> r1.text], o2)
                 ELSE r1
       IN  /\ (~io.retried => o2 = o1)
           /\ dirty' = r2.dirty
           /\ doc' = r2.doc
           /\ io' = [io EXCEPT !.text = r2.text, !.pc = "interrupted", !.queue = <<>>,
                               !.saved = IF "written" \in {r1.how, r2.how}
                                         THEN data ELSE @,
                               !.retried = FALSE]
           /\ last' = [NoCall EXCEPT !.op = "save", !.how = r2.how]
    /\ UNCHANGED <<data, fs, inode, rdonly, pp>>

\* after the loop: archive_mgr.save() and return total_ok
SessionReturn(outcome) ==
    /\ io.pc = "urls"
    /\ pp.pc = "idle"
    /\ LET r == save([data |-> data, dirty |-> dirty, doc |-> doc, text |-> io.text],
                     outcome)
       IN  /\ dirty' = r.dirty
           /\ doc' = r.doc
           /\ io' = [io EXCEPT !.text = r.text, !.pc = "returned",
                               !.saved = IF r.how = "written" THEN data ELSE @]
           /\ last' = [NoCall EXCEPT !.op = "save", !.how = r.how]
    /\ UNCHANGED <<data, fs, inode, rdonly, pp>>

\* the process ends
SessionEnd ==
    /\ io.pc \in {"returned", "interrupted"}
    /\ data' = <<>>
    /\ dirty' = FALSE
    /\ io' = [io EXCEPT !.pc = "none", !.mode = "", !.mutated = FALSE, !.url = "",
                        !.out_dir = "", !.target_dir = "",
                        !.fetched = IF io.pc = "returned" THEN @ \cup io.fetching ELSE @,
                        !.fetching = {}]
    /\ last' = Call("end")
    /\ UNCHANGED <<doc, fs, inode, rdonly, pp>>

\* the steps of download_immediate between two URLs
ImmediateUrl ==
    /\ io.mode = "immediate"
    /\ io.pc = "urls"
    /\ \/ \E es \in SessionListings : PrepassStart(es, session_container)
       \/ PrepassItem
       \/ PrepassReturn
       \/ AfterPrepass
       \/ NextUrl
       \/ /\ pp.pc = "fetch"
          /\ EnterContext("playlist", [i \in DOMAIN pp.real_urls |-> InfoOf(pp.real_urls[i])],
                                       playlist_dir, base_dir)
       \/ /\ pp.pc = "idle"
          /\ EnterContext("video", <<InfoX>>, uploader_dir, base_dir)

\* download_urls_with_prepass before the context of a URL: a single video, or a
\* playlist whose info was extracted
PrepassUrl ==
    /\ io.mode = "with_prepass"
    /\ \/ EnterContext("video", <<InfoX>>, base_dir, base_dir)
       \/ EnterContext("playlist", <<InfoX>>, playlist_dir, playlist_dir)

NextSession ==
    \/ \E m \in {"immediate", "with_prepass"} : SessionStart(m)
    \/ ImmediateUrl
    \/ PrepassUrl
    \/ \E reported, refused \in BOOLEAN : ProcessInfo(reported, refused)
    \/ \E retry \in BOOLEAN : DownloadError(retry)
    \/ \E o \in WriteOutcomes(rdonly) : ExitContext(o)
    \/ \E o1, o2 \in WriteOutcomes(rdonly) : KeyboardInterrupt(o1, o2)
    \/ \E o \in WriteOutcomes(rdonly) : SessionReturn(o)
    \/ SessionEnd
    \/ Chmod(archive_dir)

SpecSession == InitSession /\ [][NextSession]_vars

----------------------------------------------------------------------------
(* Claims about download sessions, checked under SpecSession (no file is        *)
(* deleted there: what was downloaded remains on disk).                         *)

\* C14: in a download_immediate session the prepass hands to the downloader no id
\* that an earlier download_immediate session, which returned, had downloaded
\* successfully for the playlist: only items new to the playlist are missing.
C14_TopOffFetchesOnlyNew ==
    (io.mode = "immediate" /\ pp.pc \in {"returned", "fetch"}) =>
        \A i \in DOMAIN pp.missing_ids : pp.missing_ids[i] \notin io.fetched

\* C15: after process_info has downloaded an item and the downloader reported
\* success, the store holds key(extractor, id, container) with the file that was
\* written as file_path, wherever the output template put the file.
C15_FetchAddsEntry ==
    (last.op = "process_info" /\ last.how = "downloaded") =>
        LET k == key(last.entry.id, last.entry.extractor, session_container)
        IN  /\ DHas(data, k)
            /\ DGet(data, k).file_path = last.entry.file_path

\* C19: at the step in which a session function returns, or an interrupt leaves
\* the SmartYoutubeDL context and the function, save has been called after the last
\* mutation: the dirty flag is clear unless the write of that save failed; and
\* nothing sets the flag between the return and the end of the session.
C19_FlushBeforeExit ==
    /\ [][(io.pc \notin {"returned", "interrupted"}
             /\ io'.pc \in {"returned", "interrupted"}) =>
                \/ ~dirty'
                \/ last'.op = "save" /\ last'.how \in {"openfailed", "writefailed"}]_vars
    /\ [][(io.pc \in {"returned", "interrupted"} /\ ~dirty) => ~dirty']_vars

\* a session that returned after its final save wrote the document
C19_Witness ==
    /\ io.pc = "returned"
    /\ last.op = "save"
    /\ last.how = "written"
    /\ ~dirty
    /\ doc # <<>>

----------------------------------------------------------------------------
(* Specification SpecKey: ArchiveManager.key called once on arguments drawn     *)
(* from sources, identities and containers that differ in letter case; the      *)
(* arguments are held in last.entry, the string returned in last.key.           *)

KeyExtractors == {<<"YT">>, <<"yt">>, <<"YouTube">>, <<"youtube">>, <<>>, None}
KeyVids == {<<"x">>, <<"A">>, <<"a">>, <<"B">>, <<"b">>}
KeyContainers == {<<"mp3">>, <<"MP3">>, <<"mp4">>, <<"native">>}

InitKey ==
    /\ data = <<>>
    /\ dirty = FALSE
    /\ doc = <<>>
    /\ fs = <<>>
    /\ inode = <<>>
    /\ rdonly = {}
    /\ \E v \in KeyVids, e \in KeyExtractors, c \in KeyContainers :
           last = [NoCall EXCEPT !.entry = Entry(v, e, None, c, NoEntry.file_path, 0)]
    /\ pp = NoPrepass
    /\ io = NoIo

\* archive_mgr.key(vid, extractor, container)
Key ==
    /\ last.op = "none"
    /\ last' = [last EXCEPT !.op = "key",
                            !.key = key(last.entry.id, last.entry.extractor,
                                        last.entry.format)]
    /\ UNCHANGED <<data, dirty, doc, fs, inode, rdonly, pp, io>>

NextKey == Key

SpecKey == InitKey /\ [][NextKey]_vars

----------------------------------------------------------------------------
(* Claims about ArchiveManager.key, checked under SpecKey.                      *)

C26_CopiedNeverDownloaded ==
    last.op = "process_info" =>
        LET did(step) == \E i \in DOMAIN last.steps : last.steps[i] = step
        IN  /\ last.copy = "ok" =>
                   /\ ~did("download")
                   /\ last.value = "None"
                   /\ last.counts = Counts(1, 0, 0)
            /\ last.copy = "failed" =>
                   /\ last.counts.copied = 0
                   /\ did("check")
                   /\ did("download") \/ last.counts = Counts(0, 1, 0)
            /\ last.counts \in {Counts(0, 0, 0), Counts(1, 0, 0), Counts(0, 1, 0),
                                Counts(0, 0, 1)}

\* the copy of a found entry failed and the item was downloaded
C26_Witness ==
    /\ last.op = "process_info"
    /\ last.copy = "failed"
    /\ last.how = "downloaded"

----------------------------------------------------------------------------
(* Specification SpecRetry: the loop of download_urls_with_prepass over its     *)
(* URLs, each call of download taken as one step with its outcome. The store    *)
(* is empty and clean there, so the saves of __exit__ and of the end of the     *)
(* function write nothing. A URL and an error text are sequences of tokens; a   *)
(* pattern is in a text when its tokens occur there one after the other.        *)

MaxUrls == 2         \* URLs handed to download_urls_with_prepass

\* `pat in s` for two strings
Contains(s, pat) ==
    \E i \in 1..(Len(s) - Len(pat) + 1) : SubSeq(s, i, i + Len(pat) - 1) = pat

is_youtube_music_liked(url) ==
    LET u == Lower(url)
    IN  /\ Contains(u, <<"music.youtube.com">>)
        /\ Contains(u, <<"list=", "lm">>) \/ Contains(u, <<"liked">>)

auth_error_patterns ==
    <<<<"private">>, <<"unavailable">>, <<"not", "available">>,
      <<"requires", "authentication">>, <<"sign", "in">>, <<"403">>, <<"forbidden">>,
      <<"restricted">>, <<"members-only">>, <<"this", "playlist", "is", "private">>>>

\* should_retry_with_cookies without its test of the URL
should_retry_any_url(error_message, url) ==
    LET error_lower == Lower(error_message)
    IN  \E i \in DOMAIN auth_error_patterns :
            Contains(error_lower, auth_error_patterns[i])

should_retry_with_cookies(error_message, url) ==
    LET is_playlist_url == \/ Contains(Lower(url), <<"playlist">>)
                           \/ Contains(Lower(url), <<"list=">>)
        error_lower == Lower(error_message)
    IN  IF ~is_playlist_url THEN FALSE
        ELSE \E i \in DOMAIN auth_error_patterns :
                 Contains(error_lower, auth_error_patterns[i])

RetryUrls ==
    {<<"youtube.com", "watch">>,
     <<"youtube.com", "watch", "list=", "PL">>,
     <<"youtube.com", "playlist", "list=", "PL">>,
     <<"YOUTUBE.COM", "PLAYLIST", "LIST=", "PL">>,
     <<"music.youtube.com", "playlist", "list=", "LM">>}

RetryErrors ==
    {<<"This", "playlist", "is", "private">>, <<"HTTP", "Error", "403">>,
     <<"timed", "out">>}

\* what one call of ydl.download([url]) inside its context can end in: it returns
\* 0, returns another value, raises an Exception, raises KeyboardInterrupt
DownloadOutcomes == {"zero", "nonzero", "raised", "interrupt"}

InitRetry ==
    /\ data = <<>>
    /\ dirty = FALSE
    /\ doc = <<>>
    /\ fs = <<>>
    /\ inode = <<>>
    /\ rdonly = {}
    /\ last = NoCall
    /\ pp = NoPrepass
    /\ \E n \in 1..MaxUrls : \E us \in [1..n -> RetryUrls] : \E f \in BOOLEAN :
           io = [NoIo EXCEPT !.pc = "urls", !.mode = "with_prepass", !.urls = us,
                             !.force = f]

\* the URL is done: the loop goes on with the URLs after it
NextOfLoop(st, ok) ==
    [st EXCEPT !.pc = "urls", !.urls = Tail(@),
               !.total_ok = IF ok THEN @ + 1 ELSE @,
               !.counted = IF ok THEN @ + 1 ELSE @,
               !.failed = IF ok THEN @ ELSE TRUE]

\* one pass of `for url in urls:` up to the end of the first context: the options
\* are built (or, if that raises twice, the URL is left), ydl.download([url]) is
\* called and its result or its exception handled up to the decision to retry
FirstAttempt(built, outcome, e) ==
    /\ io.pc = "urls"
    /\ io.urls # <<>>
    /\ LET url == Head(io.urls)
           st == [io EXCEPT !.attempts = IF built THEN 1 ELSE 0, !.counted = 0,
                            !.error = <<>>]
       IN  /\ io' = IF ~built THEN [st EXCEPT !.pc = "urls", !.urls = Tail(@)]
                    ELSE CASE outcome = "zero" -> NextOfLoop(st, TRUE)
                           [] outcome = "nonzero" -> NextOfLoop(st, FALSE)
                           [] outcome = "interrupt" -> [st EXCEPT !.pc = "interrupted"]
                           [] outcome = "raised" ->
                                IF /\ ~io.force
                                   /\ ~is_youtube_music_liked(url)
                                   /\ should_retry_with_cookies(e, url)
                                THEN [st EXCEPT !.pc = "retry", !.error = e]
                                ELSE NextOfLoop([st EXCEPT !.error = e], FALSE)
           /\ last' = [NoCall EXCEPT !.op = "download", !.title = url,
                                     !.how = IF built THEN outcome ELSE "unbuilt"]
    /\ UNCHANGED <<data, dirty, doc, fs, inode, rdonly, pp>>

\* the handler's retry: ydl_with_cookies.download([url]) in a second context
RetryAttempt(outcome) ==
    /\ io.pc = "retry"
    /\ LET st == [io EXCEPT !.attempts = @ + 1]
       IN  io' = CASE outcome = "zero" -> NextOfLoop(st, TRUE)
                   [] outcome = "interrupt" -> [st EXCEPT !.pc = "interrupted"]
                   [] OTHER -> NextOfLoop(st, FALSE)
    /\ last' = [NoCall EXCEPT !.op = "download", !.title = Head(io.urls),
                              !.how = outcome, !.again = TRUE]
    /\ UNCHANGED <<data, dirty, doc, fs, inode, rdonly, pp>>

\* after the loop: archive_mgr.save() (nothing to write) and return total_ok
RetryReturn ==
    /\ io.pc = "urls"
    /\ io.urls = <<>>
    /\ io' = [io EXCEPT !.pc = "returned"]
    /\ last' = [NoCall EXCEPT !.op = "return"]
    /\ UNCHANGED <<data, dirty, doc, fs, inode, rdonly, pp>>

NextRetry ==
    \/ \E built \in BOOLEAN, o \in DownloadOutcomes, e \in RetryErrors :
           FirstAttempt(built, o, e)
    \/ \E o \in DownloadOutcomes : RetryAttempt(o)
    \/ RetryReturn

SpecRetry == InitRetry /\ [][NextRetry]_vars

----------------------------------------------------------------------------
(* Claims about the retry with cookies, checked under SpecRetry.                *)

\* C28: download is called at most twice for a URL; it is called a second time
\* only when cookies were not forced, the URL is not a Liked-Music URL, the URL
\* holds "playlist" or "list=" and the text of the first error holds one of the
\* authentication patterns; a URL adds at most one to total_ok; and when the last
\* call of download for a URL failed (it raised an Exception or returned a value
\* other than 0) the loop is at the URLs after it.
C28_AtMostOneRetry ==
    /\ [](io.attempts <= 2 /\ io.counted <= 1)
    /\ [][(io.attempts = 1 /\ io'.attempts = 2) =>
            LET url == Lower(Head(io.urls))
                err == Lower(io.error)
            IN  /\ ~io.force
                /\ ~(/\ Contains(url, <<"music.youtube.com">>)
                     /\ Contains(url, <<"list=", "lm">>) \/ Contains(url, <<"liked">>))
                /\ Contains(url, <<"playlist">>) \/ Contains(url, <<"list=">>)
                /\ \E pat \in {<<"private">>, <<"unavailable">>, <<"not", "available">>,
                               <<"requires", "authentication">>, <<"sign", "in">>,
                               <<"403">>, <<"forbidden">>, <<"restricted">>,
                               <<"members-only">>} : Contains(err, pat)]_vars
    /\ [][io'.total_ok \in {io.total_ok, io.total_ok + 1}
          /\ (io'.total_ok = io.total_ok + 1 => io'.counted = 1 /\ io'.urls = Tail(io.urls))]_vars
    /\ [][(/\ last'.op = "download"
           /\ last'.how \in {"nonzero", "raised"}
           /\ io'.pc # "retry") =>
               /\ io'.pc = "urls"
               /\ io'.urls = Tail(io.urls)
               /\ io'.total_ok = io.total_ok]_vars

\* the second of two URLs was downloaded at its second attempt, after the URL
\* before it had failed
C28_Witness ==
    /\ io.pc = "urls"
    /\ io.urls = <<>>
    /\ io.failed
    /\ io.attempts = 2
    /\ io.counted = 1
    /\ io.total_ok = 1
    /\ last.again

----------------------------------------------------------------------------
(* Specification SpecHeartbeat: the download block of download_immediate with   *)
(* its Heartbeat threads. A Heartbeat is [stop, thr, i]: self._stop, where its  *)
(* thread is ("check": at the test of the while loop, "sleep": in time.sleep,   *)
(* "ended": run returned, "killed": the daemon thread went with the process),   *)
(* and the local i of run (0 once the thread is gone). The download of a URL    *)
(* is one step that may add an entry to the store. The threads are scheduled    *)
(* fairly, and a join with a timeout returns.                                   *)

Heartbeat == [stop |-> FALSE, thr |-> "check", i |-> 0]

\* a thread that never tests self._stop
run_deaf(h) ==
    IF h.thr = "check"
    THEN [h EXCEPT !.i = (@ + 1) % 4, !.thr = "sleep"]
    ELSE [h EXCEPT !.thr = "check"]

\* one step of run(): the test of `while not self._stop` with the body up to
\* time.sleep, or the return from time.sleep
run(h) ==
    IF h.thr = "check"
    THEN IF h.stop THEN [h EXCEPT !.thr = "ended", !.i = 0]
         ELSE [h EXCEPT !.i = (@ + 1) % 4, !.thr = "sleep"]
    ELSE [h EXCEPT !.thr = "check"]

InitHeartbeat ==
    /\ data = <<>>
    /\ dirty = FALSE
    /\ doc = <<>>
    /\ fs = <<>>
    /\ inode = <<>>
    /\ rdonly = {}
    /\ last = NoCall
    /\ pp = NoPrepass
    /\ io = [NoIo EXCEPT !.pc = "urls", !.mode = "immediate"]

\* `with SmartYoutubeDL(...) as ydl:` hb = Heartbeat("Processing"); hb.start()
HbStart ==
    /\ io.pc = "urls"
    /\ Len(io.hbs) < MaxUrls
    /\ io' = [io EXCEPT !.pc = "block", !.hbs = Append(@, Heartbeat), !.res = ""]
    /\ last' = Call("start")
    /\ UNCHANGED <<data, dirty, doc, fs, inode, rdonly, pp>>

\* a step of the thread of the k-th Heartbeat
HbRun(k) ==
    /\ k \in DOMAIN io.hbs
    /\ io.pc # "exited"
    /\ io.hbs[k].thr \in {"check", "sleep"}
    /\ io' = [io EXCEPT !.hbs[k] = run(@)]
    /\ last' = Call("heartbeat")
    /\ UNCHANGED <<data, dirty, doc, fs, inode, rdonly, pp>>

\* res = ydl.download(real_urls) and what follows it in the try block, up to the
\* finally clause; recorded says that the download put an entry into the store
HbDownload(outcome, recorded) ==
    /\ io.pc = "block"
    /\ data' = IF recorded
               THEN add(data, fs, inode, InfoX.id, InfoX.extractor_key, InfoX.title,
                        downloaded_file(base_dir, session_container, InfoX),
                        session_container)
               ELSE data
    /\ dirty' = (dirty \/ recorded)
    /\ io' = [io EXCEPT !.pc = "finally", !.res = outcome,
                        !.total_ok = IF outcome = "zero" THEN @ + 1 ELSE @]
    /\ last' = [NoCall EXCEPT !.op = "download", !.how = outcome]
    /\ UNCHANGED <<doc, fs, inode, rdonly, pp>>

\* finally: hb.stop() up to the call of join
HbStop ==
    /\ io.pc = "finally"
    /\ io' = [io EXCEPT !.pc = "join", !.hbs[Len(io.hbs)].stop = TRUE]
    /\ last' = Call("stop")
    /\ UNCHANGED <<data, dirty, doc, fs, inode, rdonly, pp>>

\* self._thr.join(timeout=0.2) returns, the thread ended or not; __exit__ saves
\* the store; the loop continues, or the interrupt leaves the function
HbJoined(o) ==
    /\ io.pc = "join"
    /\ LET r == save([data |-> data, dirty |-> dirty, doc |-> doc, text |-> io.text], o)
       IN  /\ dirty' = r.dirty
           /\ doc' = r.doc
           /\ io' = [io EXCEPT !.text = r.text, !.res = "",
                               !.pc = IF io.res = "interrupt" THEN "interrupted"
                                      ELSE "urls"]
    /\ last' = [NoCall EXCEPT !.op = "joined",
                              !.ok = io.hbs[Len(io.hbs)].thr = "ended"]
    /\ UNCHANGED <<data, fs, inode, rdonly, pp>>

\* after the loop: archive_mgr.save() and return total_ok
HbReturn(o) ==
    /\ io.pc = "urls"
    /\ LET r == save([data |-> data, dirty |-> dirty, doc |-> doc, text |-> io.text], o)
       IN  /\ dirty' = r.dirty
           /\ doc' = r.doc
           /\ io' = [io EXCEPT !.text = r.text, !.pc = "returned"]
    /\ last' = Call("return")
    /\ UNCHANGED <<data, fs, inode, rdonly, pp>>

\* main returns and the interpreter exits: the daemon threads go with it
HbExit ==
    /\ io.pc \in {"returned", "interrupted"}
    /\ io' = [io EXCEPT !.pc = "exited",
                        !.hbs = [k \in DOMAIN @ |->
                                    IF @[k].thr \in {"check", "sleep"}
                                    THEN [@[k] EXCEPT !.thr = "killed", !.i = 0]
                                    ELSE @[k]]]
    /\ last' = Call("exit")
    /\ UNCHANGED <<data, dirty, doc, fs, inode, rdonly, pp>>

NextHeartbeat ==
    \/ HbStart
    \/ \E k \in 1..MaxUrls : HbRun(k)
    \/ \E o \in DownloadOutcomes, recorded \in BOOLEAN : HbDownload(o, recorded)
    \/ HbStop
    \/ \E o \in WriteOutcomes(rdonly) : HbJoined(o)
    \/ \E o \in WriteOutcomes(rdonly) : HbReturn(o)
    \/ HbExit

SpecHeartbeat ==
    /\ InitHeartbeat
    /\ [][NextHeartbeat]_vars
    /\ \A k \in 1..MaxUrls : WF_vars(HbRun(k))
    /\ WF_vars(\E o \in WriteOutcomes(rdonly) : HbJoined(o))

\* every Heartbeat whose try block was left has _stop set; a step of a heartbeat
\* thread changes that Heartbeat only, as run says, and leaves store, flag and
\* document alone; a join that was begun returns
HbSafe ==
    /\ [](\A k \in DOMAIN io.hbs :
              (k < Len(io.hbs) \/ io.pc \notin {"block", "finally"}) => io.hbs[k].stop)
    /\ [][last'.op = "heartbeat" =>
              /\ data' = data /\ dirty' = dirty /\ doc' = doc
              /\ \E k \in DOMAIN io.hbs :
                     io' = [io EXCEPT !.hbs[k] = [stop |-> @.stop,
                                                   thr |-> IF @.thr = "sleep" THEN "check"
                                                           ELSE IF @.stop THEN "ended"
                                                           ELSE "sleep",
                                                   i |-> IF @.thr = "sleep" THEN @.i
                                                         ELSE IF @.stop THEN 0
                                                         ELSE (@.i + 1) % 4]]]_vars
    /\ (io.pc = "join") ~> (io.pc # "join")

----------------------------------------------------------------------------
(* Claims about the heartbeat, checked under SpecHeartbeat.                     *)

\* C29 as stated: stop() is called on every exit path of the download block; once
\* _stop is set the thread reaches the test of its loop with the flag set and
\* returns from run; the join of stop() returns whether or not the thread has
\* ended; no heartbeat step touches the store, its dirty flag or the document.
C29_ThreadObservesFlag ==
    /\ HbSafe
    /\ \A k \in 1..MaxUrls :
           (k \in DOMAIN io.hbs /\ io.hbs[k].stop) ~>
               (k \in DOMAIN io.hbs /\ io.hbs[k].thr = "ended")

\* C29: as above, but once _stop is set the thread ends: it returns from run at
\* the next test of its loop, or it is ended with the process, being a daemon
\* thread, before it reaches that test.
C29_ThreadEnds ==
    /\ HbSafe
    /\ \A k \in 1..MaxUrls :
           (k \in DOMAIN io.hbs /\ io.hbs[k].stop) ~>
               (k \in DOMAIN io.hbs /\ io.hbs[k].thr \in {"ended", "killed"})

\* stop() returned while the thread was asleep, the store having changed during
\* the download, and the thread returned from run later
C29_Witness ==
    /\ io.pc = "urls"
    /\ io.hbs # <<>>
    /\ io.hbs[Len(io.hbs)].thr = "ended"
    /\ last.op = "heartbeat"
    /\ data # <<>>

----------------------------------------------------------------------------
(* Specification SpecClear: the clearing operations on the persisted document,  *)
(* which they read with load_archive and write with save_archive. No            *)
(* ArchiveManager is involved. A point in time is a number, a day being one.    *)

NowTime == 3         \* datetime.now()

UpperTok(t) ==
    CASE t = "delete" -> "DELETE"
      [] t = "all" -> "ALL"
      [] t = "yes" -> "YES"
      [] t = "y" -> "Y"
      [] OTHER -> t

Upper(s) == [i \in DOMAIN s |-> UpperTok(s[i])]

\* load_archive(): {} when the file is missing or json.load raises
load_archive == IF io.text = "json" THEN doc ELSE <<>>

\* save_archive(archive): open('w') truncates the file, json.dump writes into it;
\* an exception of either is printed and swallowed
save_archive(archive, outcome) ==
    IF outcome = "ok" THEN [doc |-> archive, text |-> "json"]
    ELSE IF outcome = "openfail" THEN [doc |-> doc, text |-> io.text]
    ELSE [doc |-> <<>>, text |-> "partial"]

\* prompt(question, default): `ans or (default or "")`
prompt(ans, default) == IF ans # <<>> THEN ans ELSE default

\* parse_date_input(date_str): a date of one of the formats, "today", or None
parse_date_input(date_str) ==
    IF date_str = <<"2023-12-24">> THEN [ok |-> TRUE, t |-> 1]
    ELSE IF date_str = <<"2023-12-25">> THEN [ok |-> TRUE, t |-> 2]
    ELSE IF Contains(Lower(date_str), <<"today">>) THEN [ok |-> TRUE, t |-> NowTime]
    ELSE [ok |-> FALSE, t |-> 0]

\* the positions of the entries whose title holds the term, letter case aside
NameMatches(archive, search_term) ==
    {i \in DOMAIN archive : Contains(Lower(archive[i].v.title), Lower(search_term))}

\* the positions of the entries whose download_date is within [from_date, to_date]
DateMatches(archive, from_date, to_date) ==
    {i \in DOMAIN archive : /\ from_date <= archive[i].v.download_date
                            /\ archive[i].v.download_date <= to_date}

\* what a clearing operation leaves behind: the document, the state of the file,
\* the keys removed, the number returned and the number of prompts answered
Cleared(archive, matches, asked, outcome) ==
    LET w == save_archive(Without(archive, matches), outcome)
    IN  [doc |-> w.doc, text |-> w.text,
         removed |-> [i \in 1..Cardinality(matches) |->
                         SelectSeq(archive, LAMBDA x : \E j \in matches : archive[j].k = x.k)[i].k],
         count |-> Cardinality(matches), asked |-> asked]

NotCleared(asked) ==
    [doc |-> doc, text |-> io.text, removed |-> <<>>, count |-> 0, asked |-> asked]

ClearDone(op, r, term, answers, dates, outcome) ==
    /\ doc' = r.doc
    /\ io' = [io EXCEPT !.text = r.text]
    /\ last' = [NoCall EXCEPT !.op = op, !.title = term,
                              !.answers = SubSeq(answers, 1, r.asked),
                              !.dates = dates, !.removed = r.removed,
                              !.count = r.count, !.how = outcome]
    /\ UNCHANGED <<data, dirty, fs, inode, rdonly, pp>>

\* clear_archive_by_name(search_term); a title that is None raises in the loop
clear_archive_by_name(search_term, ans, outcome) ==
    LET archive == load_archive
        matches == NameMatches(archive, search_term)
        confirm == Lower(prompt(ans, <<"n">>))
    IN  IF archive = <<>> THEN NotCleared(0)
        ELSE IF \E i \in DOMAIN archive : archive[i].v.title = None THEN NotCleared(0)
        ELSE IF matches = {} THEN NotCleared(0)
        ELSE IF confirm \notin {<<"y">>, <<"yes">>} THEN NotCleared(1)
        ELSE Cleared(archive, matches, 1, outcome)

\* clear_archive_by_date(from_date_str, to_date_str)
clear_archive_by_date(from_date_str, to_date_str, ans, outcome) ==
    LET archive == load_archive
        from_date == parse_date_input(from_date_str)
        to_date == IF Truthy(to_date_str) THEN parse_date_input(to_date_str)
                   ELSE [ok |-> TRUE, t |-> NowTime]
        matches == DateMatches(archive, from_date.t, to_date.t)
        confirm == Lower(prompt(ans, <<"n">>))
    IN  IF archive = <<>> THEN NotCleared(0)
        ELSE IF ~from_date.ok \/ ~to_date.ok THEN NotCleared(0)
        ELSE IF matches = {} THEN NotCleared(0)
        ELSE IF confirm \notin {<<"y">>, <<"yes">>} THEN NotCleared(1)
        ELSE Cleared(archive, matches, 1, outcome)

\* clear_entire_archive()
clear_entire_archive(ans1, ans2, outcome) ==
    LET archive == load_archive
        confirm1 == Lower(prompt(ans1, <<"no">>))
        confirm2 == Upper(prompt(ans2, <<>>))
    IN  IF archive = <<>> THEN NotCleared(0)
        ELSE IF confirm1 # <<"yes">> THEN NotCleared(1)
        ELSE IF confirm2 # <<"DELETE", "ALL">> THEN NotCleared(2)
        ELSE Cleared(archive, DOMAIN archive, 2, outcome)

ClearEntries ==
    {[k |-> key(<<"x">>, <<"YT">>, <<"mp3">>),
      v |-> Entry(<<"x">>, <<"YT">>, <<"A">>, <<"mp3">>, FileA, 1)],
     [k |-> key(<<"z">>, <<"YT">>, <<"mp3">>),
      v |-> Entry(<<"z">>, <<"YT">>, <<"a", "B">>, <<"mp3">>, FileB, 2)],
     [k |-> key(<<"x">>, <<"YT">>, <<"mp4">>),
      v |-> Entry(<<"x">>, <<"YT">>, None, <<"mp4">>, FileB, 0)]}

ClearTerms == {<<"a">>, <<"B">>, <<"q">>}
ClearAnswers == {<<"y">>, <<"YES">>, <<"n">>, <<>>}
ClearAnswers2 == {<<"DELETE", "ALL">>, <<"delete", "all">>, <<>>}
ClearDates == {<<"2023-12-24">>, <<"2023-12-25">>, <<"today">>, <<"soon">>, None}

InitClear ==
    /\ data = <<>>
    /\ dirty = FALSE
    /\ \E n \in 1..MaxEntries : \E d \in [1..n -> ClearEntries] :
           /\ \A i, j \in 1..n : d[i] = d[j] => i = j
           /\ doc = d
    /\ fs = <<>>
    /\ inode = <<>>
    /\ rdonly = {}
    /\ last = NoCall
    /\ pp = NoPrepass
    /\ io = [NoIo EXCEPT !.pc = "none"]

ClearByName(term, ans, outcome) ==
    ClearDone("clear_archive_by_name", clear_archive_by_name(term, ans, outcome),
              term, <<ans>>, <<>>, outcome)

ClearByDate(from_date_str, to_date_str, ans, outcome) ==
    /\ from_date_str # None
    /\ ClearDone("clear_archive_by_date",
                 clear_archive_by_date(from_date_str, to_date_str, ans, outcome),
                 <<>>, <<ans>>, <<from_date_str, to_date_str>>, outcome)

ClearEntire(ans1, ans2, outcome) ==
    ClearDone("clear_entire_archive", clear_entire_archive(ans1, ans2, outcome),
              <<>>, <<ans1, ans2>>, <<>>, outcome)

NextClear ==
    \/ \E term \in ClearTerms, ans \in ClearAnswers, o \in WriteOutcomes(rdonly) :
           ClearByName(term, ans, o)
    \/ \E f, t \in ClearDates, ans \in ClearAnswers, o \in WriteOutcomes(rdonly) :
           ClearByDate(f, t, ans, o)
    \/ \E a1 \in ClearAnswers \cup {<<"yes">>}, a2 \in ClearAnswers2,
          o \in WriteOutcomes(rdonly) : ClearEntire(a1, a2, o)
    \/ Chmod(archive_dir)

SpecClear == InitClear /\ [][NextClear]_vars

----------------------------------------------------------------------------
(* Claims about the clearing operations, checked under SpecClear.               *)

\* C30: clear_archive_by_name and clear_archive_by_date leave the document as it
\* was unless the answer is y or yes (letter case aside), and then the document
\* holds exactly the entries that did not match, in their order; clear_entire_archive
\* leaves a document without entries when the first answer is yes and the second
\* DELETE ALL, and otherwise leaves the document as it was.
C30_ClearOnlyOnConfirm ==
    [][LET yes(a) == Len(a) > 0 /\ Lower(a[1]) \in {<<"y">>, <<"yes">>}
           same == doc' = doc /\ io'.text = io.text
           left(m) == doc' = Without(doc, m) /\ io'.text = "json"
       IN  /\ last'.op = "clear_archive_by_name" =>
                IF yes(last'.answers)
                THEN left(NameMatches(doc, last'.title))
                ELSE same
           /\ last'.op = "clear_archive_by_date" =>
                IF yes(last'.answers)
                THEN left(DateMatches(doc, parse_date_input(last'.dates[1]).t,
                                      IF Truthy(last'.dates[2])
                                      THEN parse_date_input(last'.dates[2]).t
                                      ELSE NowTime))
                ELSE same
           /\ last'.op = "clear_entire_archive" =>
                IF /\ Len(last'.answers) = 2
                   /\ Lower(last'.answers[1]) = <<"yes">>
                   /\ Upper(last'.answers[2]) = <<"DELETE", "ALL">>
                THEN doc' = <<>> /\ io'.text = "json"
                ELSE same]_vars

====
